---- MODULE Spec2Model ----
(***************************************************************************)
(* Model of pylint-sort-functions: the sort/categorization validator       *)
(* (utils.py), the privacy classifier (utils.py) and the auto-fix engine   *)
(* (auto_fix.py).                                                          *)
(*                                                                         *)
(* Strings are sequences of one-character strings, so that startswith,     *)
(* endswith, rstrip, glob matching and Python's code-point ordering are    *)
(* computed as the code computes them.  File content is a sequence of      *)
(* tokens: a token is either the newline character or the text of one      *)
(* line (a def line, a decorator line, any other line).                    *)
(***************************************************************************)
EXTENDS Integers, Sequences, FiniteSets, TLC

\* ------------------------------------------------------------------ bounds

\* Largest number of module-level functions in a generated file.
MaxFuncs == 3

\* ----------------------------------------------------------------- strings

\* Code point of a character (Python compares str by code point).
Ord(c) ==
    CASE c = "(" -> 40
      [] c = ")" -> 41
      [] c = "*" -> 42
      [] c = "." -> 46
      [] c = "?" -> 63
      [] c = "@" -> 64
      [] c = "Z" -> 90
      [] c = "_" -> 95
      [] c = "a" -> 97
      [] c = "b" -> 98
      [] c = "c" -> 99
      [] c = "m" -> 109
      [] c = "r" -> 114
      [] c = "t" -> 116
      [] c = "z" -> 122

\* str.startswith(prefix)
StartsWith(s, prefix) ==
    /\ Len(prefix) <= Len(s)
    /\ SubSeq(s, 1, Len(prefix)) = prefix

\* str.endswith(suffix)
EndsWith(s, suffix) ==
    /\ Len(suffix) <= Len(s)
    /\ SubSeq(s, Len(s) - Len(suffix) + 1, Len(s)) = suffix

\* Python's s < t on str: lexicographic by code point, a proper prefix first.
RECURSIVE StrLess(_, _)
StrLess(s, t) ==
    IF t = <<>> THEN FALSE
    ELSE IF s = <<>> THEN TRUE
    ELSE IF Head(s) = Head(t) THEN StrLess(Tail(s), Tail(t))
    ELSE Ord(Head(s)) < Ord(Head(t))

StrLeq(s, t) == s = t \/ StrLess(s, t)

\* str.rstrip(chars): drop every trailing character that is in chars.
RECURSIVE RStrip(_, _)
RStrip(s, chars) ==
    IF s # <<>> /\ s[Len(s)] \in chars
    THEN RStrip(SubSeq(s, 1, Len(s) - 1), chars)
    ELSE s

\* names == sorted(names) on a list of str.
RECURSIVE IsSortedNames(_)
IsSortedNames(names) ==
    IF Len(names) <= 1 THEN TRUE
    ELSE /\ StrLeq(names[1], names[2])
         /\ IsSortedNames(Tail(names))

\* ------------------------------------------------- names and visibility

\* utils._is_dunder_method
IsDunderMethod(name) ==
    StartsWith(name, <<"_", "_">>) /\ EndsWith(name, <<"_", "_">>)

\* is_private_function without the dunder exception.
IsPrivateFunction_IgnoreDunder(name) == StartsWith(name, <<"_">>)

\* utils.is_private_function
IsPrivateFunction(name) ==
    StartsWith(name, <<"_">>) /\ ~IsDunderMethod(name)

\* ------------------------------------------------------------ decorators

\* astroid decorator expressions: Name, Attribute (e holds the object
\* expression), Call (e holds the called expression), and any other shape.
NameNode(n) == [t |-> "Name", n |-> n, e |-> <<>>]

AttributeNode(expr, attrname) == [t |-> "Attribute", n |-> attrname, e |-> <<expr>>]

CallNode(func) == [t |-> "Call", n |-> <<>>, e |-> <<func>>]

OtherNode == [t |-> "Other", n |-> <<>>, e |-> <<>>]

\* utils._decorator_node_to_string
RECURSIVE DecoratorNodeToString(_)
DecoratorNodeToString(decorator) ==
    IF decorator.t = "Name" THEN decorator.n
    ELSE IF decorator.t = "Attribute" /\ decorator.e[1].t = "Name"
    THEN decorator.e[1].n \o <<".">> \o decorator.n
    ELSE IF decorator.t = "Attribute"
            /\ DecoratorNodeToString(decorator.e[1]) # <<>>
    THEN DecoratorNodeToString(decorator.e[1]) \o <<".">> \o decorator.n
    ELSE IF decorator.t = "Call"
            /\ DecoratorNodeToString(decorator.e[1]) # <<>>
    THEN DecoratorNodeToString(decorator.e[1]) \o <<"(", ")">>
    ELSE <<>>

\* utils._get_decorator_strings, on the list of decorator nodes of a function
RECURSIVE GetDecoratorStrings(_)
GetDecoratorStrings(decorators) ==
    IF decorators = <<>> THEN <<>>
    ELSE (IF DecoratorNodeToString(Head(decorators)) # <<>>
          THEN << <<"@">> \o DecoratorNodeToString(Head(decorators)) >>
          ELSE <<>>)
         \o GetDecoratorStrings(Tail(decorators))

\* re.match("^" + escape(pattern).replace("\*", "[^.]+") + "$", s):
\* a literal character matches itself, * matches one or more non-dot characters.
RECURSIVE WildcardMatch(_, _)
WildcardMatch(pattern, s) ==
    IF pattern = <<>> THEN s = <<>>
    ELSE IF Head(pattern) = "*"
    THEN \E k \in 1..Len(s) :
            /\ \A i \in 1..k : s[i] # "."
            /\ WildcardMatch(Tail(pattern), SubSeq(s, k + 1, Len(s)))
    ELSE /\ s # <<>>
         /\ Head(s) = Head(pattern)
         /\ WildcardMatch(Tail(pattern), Tail(s))

\* _decorator_matches_pattern with a * that also matches dots.
DecoratorMatchesPattern_AnySegments(decorator_str, pattern0) ==
    LET pattern == IF StartsWith(pattern0, <<"@">>) THEN pattern0
                   ELSE <<"@">> \o pattern0
        decorator_base == RStrip(decorator_str, {"(", ")"})
        pattern_base == RStrip(pattern, {"(", ")"})
    IN  \/ decorator_str = pattern
        \/ decorator_base = pattern_base
        \/ /\ \E i \in 1..Len(pattern_base) : pattern_base[i] = "*"
           /\ Len(decorator_base) >= Len(pattern_base)
           /\ pattern_base[Len(pattern_base)] = decorator_base[Len(decorator_base)]

\* utils._decorator_matches_pattern
DecoratorMatchesPattern(decorator_str, pattern0) ==
    LET pattern == IF StartsWith(pattern0, <<"@">>) THEN pattern0
                   ELSE <<"@">> \o pattern0
        decorator_base == RStrip(decorator_str, {"(", ")"})
        pattern_base == RStrip(pattern, {"(", ")"})
    IN  \/ decorator_str = pattern
        \/ decorator_base = pattern_base
        \/ /\ \E i \in 1..Len(pattern_base) : pattern_base[i] = "*"
           /\ WildcardMatch(pattern_base, decorator_base)

\* utils.function_has_excluded_decorator; func is [name, decorators]
FunctionHasExcludedDecorator(func, ignore_decorators) ==
    IF ignore_decorators = <<>> \/ func.decorators = <<>> THEN FALSE
    ELSE LET function_decorators == GetDecoratorStrings(func.decorators)
         IN  \E i \in 1..Len(function_decorators) :
             \E j \in 1..Len(ignore_decorators) :
                DecoratorMatchesPattern(function_decorators[i], ignore_decorators[j])

\* ---------------------------------------------------------- categorizer

\* utils.MethodCategory
MethodCategory(name, patterns, decorators, priority) ==
    [name |-> name, patterns |-> patterns, decorators |-> decorators,
     priority |-> priority]

\* utils.CategoryConfig._get_default_categories
GetDefaultCategories ==
    << MethodCategory("public_methods", << <<"*">> >>, <<>>, 0),
       MethodCategory("private_methods", << <<"_", "*">> >>, <<>>, 1) >>

\* utils.CategoryConfig with __post_init__: an empty category list is
\* replaced by the default binary categories.
CategoryConfig(categories, default_category, enable_categories, category_sorting) ==
    [categories |-> IF categories = <<>> THEN GetDefaultCategories ELSE categories,
     default_category |-> default_category,
     enable_categories |-> enable_categories,
     category_sorting |-> category_sorting]

\* CategoryConfig(): what a None config is replaced by.
DefaultConfig == CategoryConfig(<<>>, "public_methods", FALSE, "alphabetical")

\* utils._method_name_matches_pattern: fnmatch.fnmatch on a POSIX platform,
\* for patterns built from literal characters, * and ?.
RECURSIVE MethodNameMatchesPattern(_, _)
MethodNameMatchesPattern(method_name, pattern) ==
    IF pattern = <<>> THEN method_name = <<>>
    ELSE IF Head(pattern) = "*"
    THEN \E k \in 0..Len(method_name) :
            MethodNameMatchesPattern(
                SubSeq(method_name, k + 1, Len(method_name)), Tail(pattern))
    ELSE /\ method_name # <<>>
         /\ Head(pattern) = "?" \/ Head(pattern) = Head(method_name)
         /\ MethodNameMatchesPattern(Tail(method_name), Tail(pattern))

\* The first pattern of the list that matches the name (the loop breaks
\* there), as a list of zero or one pattern.
RECURSIVE FirstMatchingPattern(_, _)
FirstMatchingPattern(name, patterns) ==
    IF patterns = <<>> THEN <<>>
    ELSE IF MethodNameMatchesPattern(name, Head(patterns)) THEN <<Head(patterns)>>
    ELSE FirstMatchingPattern(name, Tail(patterns))

Max(a, b) == IF a >= b THEN a ELSE b

\* utils._get_category_match_priority
GetCategoryMatchPriority(func, category) ==
    LET function_decorators == GetDecoratorStrings(func.decorators)
        decorator_hit ==
            \E i \in 1..Len(category.decorators) :
            \E j \in 1..Len(function_decorators) :
                DecoratorMatchesPattern(function_decorators[j], category.decorators[i])
        priority1 == IF decorator_hit THEN Max(0, 100) ELSE 0
        first == FirstMatchingPattern(func.name, category.patterns)
    IN  IF first = <<>> THEN priority1
        ELSE IF first[1] = <<"*">> THEN Max(priority1, 1)
        ELSE Max(priority1, 50)

\* The sort key without the category's priority field.
KeyLess_NoPriority(mp1, p1, mp2, p2) == mp1 < mp2

\* (x[1], x[0].priority) < (y[1], y[0].priority) on Python tuples
KeyLess(mp1, p1, mp2, p2) == mp1 < mp2 \/ (mp1 = mp2 /\ p1 < p2)

\* utils.categorize_method.  The matching categories are sorted by the key
\* (match priority, category.priority) with reverse=True, which is stable:
\* the first category in configuration order among those with the largest
\* key comes first.
CategorizeMethod(func, config) ==
    IF ~config.enable_categories
    THEN IF IsPrivateFunction(func.name) THEN "private_methods" ELSE "public_methods"
    ELSE LET cats == config.categories
             mp(i) == GetCategoryMatchPriority(func, cats[i])
             matching == {i \in 1..Len(cats) : mp(i) > 0}
             best == {i \in matching :
                        \A j \in matching :
                            ~KeyLess(mp(i), cats[i].priority, mp(j), cats[j].priority)}
         IN  IF matching = {} THEN config.default_category
             ELSE cats[CHOOSE i \in best : \A j \in best : i <= j].name

\* ------------------------------------------------------------ validator

\* [f.name for f in functions]
Names(functions) == [i \in 1..Len(functions) |-> functions[i].name]

\* utils._get_function_groups
GetFunctionGroups(functions) ==
    [public |-> SelectSeq(functions, LAMBDA f : ~IsPrivateFunction(f.name)),
     private |-> SelectSeq(functions, LAMBDA f : IsPrivateFunction(f.name))]

\* utils._get_function_categories: the functions of one category, in order
\* (the dictionary's value for that key; absent keys are the empty list).
GetFunctionCategories(functions, config, category_name) ==
    SelectSeq(functions, LAMBDA f : CategorizeMethod(f, config) = category_name)

\* category_order.get(category, len(config.categories)), 0-based
CategoryIndex(category, config) ==
    IF \E i \in 1..Len(config.categories) : config.categories[i].name = category
    THEN (CHOOSE i \in 1..Len(config.categories) :
            /\ config.categories[i].name = category
            /\ \A j \in (i + 1)..Len(config.categories) :
                  config.categories[j].name # category) - 1
    ELSE Len(config.categories)

\* utils._are_categories_properly_ordered: the loop, from position i with
\* last_category_index = last.  (A category already seen and a category seen
\* for the first time are rejected by the same comparison.)
RECURSIVE CategoriesOrderedFrom(_, _, _, _, _)
CategoriesOrderedFrom(functions, config, i, seen, last) ==
    IF i > Len(functions) THEN TRUE
    ELSE LET category == CategorizeMethod(functions[i], config)
             category_index == CategoryIndex(category, config)
         IN  IF category \in seen
             THEN /\ ~(category_index < last)
                  /\ CategoriesOrderedFrom(functions, config, i + 1, seen, last)
             ELSE /\ ~(category_index < last)
                  /\ CategoriesOrderedFrom(functions, config, i + 1,
                                           seen \cup {category}, category_index)

\* _are_categories_properly_ordered that accepts every order.
AreCategoriesProperlyOrdered_Unchecked(functions, config) == TRUE

\* utils._are_categories_properly_ordered
AreCategoriesProperlyOrdered(functions, config) ==
    CategoriesOrderedFrom(functions, config, 1, {}, -1)

\* _are_functions_sorted without the check of the private names.
AreFunctionsSorted_PublicOnly(functions, config) ==
    IF Len(functions) <= 1 THEN TRUE
    ELSE IF ~config.enable_categories
    THEN IsSortedNames(Names(GetFunctionGroups(functions).public))
    ELSE /\ \A c \in 1..Len(config.categories) :
                config.category_sorting = "alphabetical" =>
                    IsSortedNames(Names(GetFunctionCategories(
                        functions, config, config.categories[c].name)))
         /\ AreCategoriesProperlyOrdered(functions, config)

\* utils._are_functions_sorted
AreFunctionsSorted(functions, config) ==
    IF Len(functions) <= 1 THEN TRUE
    ELSE IF ~config.enable_categories
    THEN /\ IsSortedNames(Names(GetFunctionGroups(functions).public))
         /\ IsSortedNames(Names(GetFunctionGroups(functions).private))
    ELSE /\ \A c \in 1..Len(config.categories) :
                config.category_sorting = "alphabetical" =>
                    IsSortedNames(Names(GetFunctionCategories(
                        functions, config, config.categories[c].name)))
         /\ AreCategoriesProperlyOrdered(functions, config)

\* utils.are_functions_sorted_with_exclusions
AreFunctionsSortedWithExclusions(functions, ignore_decorators, config) ==
    AreFunctionsSorted(
        SelectSeq(functions,
                  LAMBDA f : ~FunctionHasExcludedDecorator(f, ignore_decorators)),
        config)

\* utils.are_methods_sorted_with_exclusions
AreMethodsSortedWithExclusions(methods, ignore_decorators, config) ==
    AreFunctionsSortedWithExclusions(methods, ignore_decorators, config)

\* utils.are_functions_properly_separated: no public function after a
\* private one.
AreFunctionsProperlySeparated(functions) ==
    IF Len(functions) <= 1 THEN TRUE
    ELSE ~\E i, j \in 1..Len(functions) :
            /\ i < j
            /\ IsPrivateFunction(functions[i].name)
            /\ ~IsPrivateFunction(functions[j].name)

\* ------------------------------------------------------- file content

\* The newline character.
NL == [k |-> "nl", s |-> <<>>, d |-> <<>>, m |-> <<>>]

\* The text "def <name>(): ..." of a module-level function definition.
DefText(name) == [k |-> "def", s |-> name, d |-> <<>>, m |-> <<>>]

\* The text "@<expression>" of a decorator line.
DecoText(node) == [k |-> "deco", s |-> <<>>, d |-> <<node>>, m |-> <<>>]

\* The text of any other statement (an import, an assignment).
StmtText(id) == [k |-> "stmt", s |-> id, d |-> <<>>, m |-> <<>>]

\* The text of a comment.
CommentText(id) == [k |-> "comment", s |-> id, d |-> <<>>, m |-> <<>>]

\* The text of a class statement with the given methods ([name, decorators]).
ClassText(name, methods) == [k |-> "class", s |-> name, d |-> <<>>, m |-> methods]

\* str.splitlines(keepends=True): cur is the line collected so far.
RECURSIVE SplitFrom(_, _)
SplitFrom(content, cur) ==
    IF content = <<>> THEN (IF cur = <<>> THEN <<>> ELSE <<cur>>)
    ELSE IF Head(content) = NL
    THEN <<Append(cur, NL)>> \o SplitFrom(Tail(content), <<>>)
    ELSE SplitFrom(Tail(content), Append(cur, Head(content)))

SplitLines(content) == SplitFrom(content, <<>>)

\* "".join(pieces)
RECURSIVE Join(_)
Join(pieces) ==
    IF pieces = <<>> THEN <<>> ELSE Head(pieces) \o Join(Tail(pieces))

\* What a line holds: "blank", the kind of its only text, or "bad" (two
\* texts on one line do not parse).
LineKind(line) ==
    LET texts == SelectSeq(line, LAMBDA t : t # NL)
    IN  IF texts = <<>> THEN "blank"
        ELSE IF Len(texts) = 1 THEN texts[1].k
        ELSE "bad"

LineText(line) == SelectSeq(line, LAMBDA t : t # NL)[1]

\* astroid.parse, as far as the tool reads its result: the module-level
\* FunctionDef nodes in body order with name, decorator nodes, lineno of the
\* def line and decorators.lineno (0 without decorators), and the ClassDef
\* nodes.  ok is FALSE for content that does not parse: a decorator that is
\* not followed by a definition, or a line that is no statement.
RECURSIVE ParseFrom(_, _, _, _, _, _)
ParseFrom(lines, i, pend, pendline, functions, classes) ==
    IF i > Len(lines)
    THEN [ok |-> pend = <<>>, functions |-> functions, classes |-> classes]
    ELSE LET kind == LineKind(lines[i])
         IN  IF kind = "blank" \/ kind = "comment"
             THEN ParseFrom(lines, i + 1, pend, pendline, functions, classes)
             ELSE IF kind = "deco"
             THEN ParseFrom(lines, i + 1,
                            pend \o LineText(lines[i]).d,
                            IF pend = <<>> THEN i ELSE pendline,
                            functions, classes)
             ELSE IF kind = "def"
             THEN ParseFrom(lines, i + 1, <<>>, 0,
                            Append(functions,
                                   [name |-> LineText(lines[i]).s,
                                    decorators |-> pend,
                                    lineno |-> i,
                                    deco_lineno |-> pendline]),
                            classes)
             ELSE IF kind = "class" /\ pend = <<>>
             THEN ParseFrom(lines, i + 1, <<>>, 0, functions,
                            Append(classes, LineText(lines[i]).m))
             ELSE IF kind = "stmt" /\ pend = <<>>
             THEN ParseFrom(lines, i + 1, <<>>, 0, functions, classes)
             ELSE [ok |-> FALSE, functions |-> <<>>, classes |-> <<>>]

\* A parser that accepts every content.
Parse_Lenient(content) ==
    [ParseFrom(SplitLines(content), 1, <<>>, 0, <<>>, <<>>) EXCEPT !.ok = TRUE]

\* astroid.parse(content)
Parse(content) == ParseFrom(SplitLines(content), 1, <<>>, 0, <<>>, <<>>)

\* utils.get_functions_from_node
GetFunctionsFromNode(module) == module.functions

\* ------------------------------------------------------------- auto-fix

\* auto_fix.FunctionSpan
FunctionSpan(node, start_line, end_line, text) ==
    [node |-> node, start_line |-> start_line, end_line |-> end_line,
     text |-> text, name |-> node.name]

\* lines[a:b] with 0-based a and b
Slice(lines, a, b) == SubSeq(lines, a + 1, b)

\* FunctionSorter._extract_function_spans
ExtractFunctionSpans(functions, lines) ==
    [i \in 1..Len(functions) |->
        LET func == functions[i]
            start_line == func.lineno - 1
            end_line ==
                IF i + 1 <= Len(functions)
                THEN IF functions[i + 1].decorators # <<>>
                     THEN functions[i + 1].deco_lineno - 1
                     ELSE functions[i + 1].lineno - 1
                ELSE Len(lines)
            actual_start ==
                IF func.decorators # <<>> THEN func.deco_lineno - 1 ELSE start_line
        IN  FunctionSpan(func, actual_start, end_line,
                         Join(Slice(lines, actual_start, end_line)))]

\* list.sort(key=lambda s: s.name): stable, ascending by code point.
RECURSIVE SortByName(_)
SortByName(spans) ==
    IF spans = <<>> THEN <<>>
    ELSE LET front == SortByName(SubSeq(spans, 1, Len(spans) - 1))
             x == spans[Len(spans)]
             keep == Cardinality({j \in 1..Len(front) : StrLeq(front[j].name, x.name)})
         IN  SubSeq(front, 1, keep) \o <<x>> \o SubSeq(front, keep + 1, Len(front))

\* _sort_function_spans without the sort of the private group.
SortFunctionSpans_PrivateUnsorted(spans, ignore_decorators) ==
    LET Excl(sp) == FunctionHasExcludedDecorator(sp.node, ignore_decorators)
        excluded == SelectSeq(spans, Excl)
        sortable_private ==
            SelectSeq(spans, LAMBDA sp : ~Excl(sp) /\ IsPrivateFunction(sp.name))
        sortable_public ==
            SelectSeq(spans, LAMBDA sp : ~Excl(sp) /\ ~IsPrivateFunction(sp.name))
    IN  SortByName(sortable_public) \o sortable_private \o excluded

\* FunctionSorter._sort_function_spans
SortFunctionSpans(spans, ignore_decorators) ==
    LET Excl(sp) == FunctionHasExcludedDecorator(sp.node, ignore_decorators)
        excluded == SelectSeq(spans, Excl)
        sortable_private ==
            SelectSeq(spans, LAMBDA sp : ~Excl(sp) /\ IsPrivateFunction(sp.name))
        sortable_public ==
            SelectSeq(spans, LAMBDA sp : ~Excl(sp) /\ ~IsPrivateFunction(sp.name))
    IN  SortByName(sortable_public) \o SortByName(sortable_private) \o excluded

\* min / max of a non-empty set of integers
MinOf(S) == CHOOSE x \in S : \A y \in S : x <= y

MaxOf(S) == CHOOSE x \in S : \A y \in S : x >= y

\* The pieces appended for the sorted spans: a "\n" before every span but the
\* first whose text does not start with "\n", then the span's text.
SpanPieces(sorted_spans) ==
    [i \in 1..Len(sorted_spans) |->
        (IF i > 1 /\ ~StartsWith(sorted_spans[i].text, <<NL>>)
         THEN <<NL>> ELSE <<>>)
        \o sorted_spans[i].text]

\* _reconstruct_content_with_sorted_functions taking the 0-based start of
\* the function region for a 1-based line number (one line too few kept).
Reconstruct_HeadOffByOne(original_content, original_spans, sorted_spans) ==
    IF original_spans = <<>> THEN original_content
    ELSE LET lines == SplitLines(original_content)
             first_func_start ==
                MinOf({original_spans[i].start_line : i \in 1..Len(original_spans)})
             last_func_end ==
                MaxOf({original_spans[i].end_line : i \in 1..Len(original_spans)})
         IN  Join(Slice(lines, 0, first_func_start - 1))
             \o Join(SpanPieces(sorted_spans))
             \o (IF last_func_end < Len(lines)
                 THEN Join(Slice(lines, last_func_end, Len(lines)))
                 ELSE <<>>)

\* _reconstruct_content_with_sorted_functions without the "\n" between spans.
Reconstruct_NoSeparator(original_content, original_spans, sorted_spans) ==
    IF original_spans = <<>> THEN original_content
    ELSE LET lines == SplitLines(original_content)
             first_func_start ==
                MinOf({original_spans[i].start_line : i \in 1..Len(original_spans)})
         IN  Join(Slice(lines, 0, first_func_start))
             \o Join([i \in 1..Len(sorted_spans) |-> sorted_spans[i].text])

\* FunctionSorter._reconstruct_content_with_sorted_functions
ReconstructContentWithSortedFunctions(original_content, original_spans, sorted_spans) ==
    IF original_spans = <<>> THEN original_content
    ELSE LET lines == SplitLines(original_content)
             first_func_start ==
                MinOf({original_spans[i].start_line : i \in 1..Len(original_spans)})
             last_func_end ==
                MaxOf({original_spans[i].end_line : i \in 1..Len(original_spans)})
         IN  Join(Slice(lines, 0, first_func_start))
             \o Join(SpanPieces(sorted_spans))
             \o (IF last_func_end < Len(lines)
                 THEN Join(Slice(lines, last_func_end, Len(lines)))
                 ELSE <<>>)

\* _sort_module_functions without the early return for sorted functions.
SortModuleFunctions_NoSortedCheck(content, module, lines, ignore_decorators) ==
    LET functions == GetFunctionsFromNode(module)
        function_spans == ExtractFunctionSpans(functions, lines)
    IN  IF functions = <<>> THEN content
        ELSE ReconstructContentWithSortedFunctions(
                content, function_spans,
                SortFunctionSpans(function_spans, ignore_decorators))

\* FunctionSorter._sort_module_functions
SortModuleFunctions(content, module, lines, ignore_decorators) ==
    LET functions == GetFunctionsFromNode(module)
        function_spans == ExtractFunctionSpans(functions, lines)
    IN  IF functions = <<>> THEN content
        ELSE IF AreFunctionsSortedWithExclusions(functions, ignore_decorators,
                                                 DefaultConfig)
        THEN content
        ELSE ReconstructContentWithSortedFunctions(
                content, function_spans,
                SortFunctionSpans(function_spans, ignore_decorators))

\* FunctionSorter._sort_class_methods: not implemented, returns the content.
SortClassMethods(content, module, lines) == content

\* FunctionSorter._sort_functions_in_content: content that does not parse is
\* returned as it is.
SortFunctionsInContent(content, ignore_decorators) ==
    LET module == Parse(content)
        lines == SplitLines(content)
    IN  IF ~module.ok THEN content
        ELSE SortClassMethods(
                SortModuleFunctions(content, module, lines, ignore_decorators),
                module, lines)

\* FunctionSorter._file_needs_sorting: FALSE for content that does not parse.
FileNeedsSorting(content, ignore_decorators) ==
    LET module == Parse(content)
        functions == GetFunctionsFromNode(module)
    IN  /\ module.ok
        /\ \/ /\ functions # <<>>
              /\ ~AreFunctionsSortedWithExclusions(functions, ignore_decorators,
                                                   DefaultConfig)
           \/ \E c \in 1..Len(module.classes) :
                /\ module.classes[c] # <<>>
                /\ ~AreMethodsSortedWithExclusions(module.classes[c],
                                                   ignore_decorators, DefaultConfig)

\* reorder(text): the content sort_file arrives at for the file, the text
\* itself when the needs-sorting check does not flag it.
Reorder(content, ignore_decorators) ==
    IF ~FileNeedsSorting(content, ignore_decorators) THEN content
    ELSE SortFunctionsInContent(content, ignore_decorators)

\* ------------------------------------------------------- generated files

\* The decorator @a.r() (a route or command registration).
RouteDecorator == CallNode(AttributeNode(NameNode(<<"a">>), <<"r">>))

\* ignore_decorators settings: none, or the pattern "@a.r".
IgnoreChoices == { <<>>, << <<"@", "a", ".", "r">> >> }

\* The functions of the generated files: public a and c, private _a and _b,
\* and b decorated with @a.r().
Blocks ==
    { [name |-> <<"a">>, decorators |-> <<>>],
      [name |-> <<"c">>, decorators |-> <<>>],
      [name |-> <<"_", "a">>, decorators |-> <<>>],
      [name |-> <<"_", "b">>, decorators |-> <<>>],
      [name |-> <<"b">>, decorators |-> <<RouteDecorator>>] }

\* A class whose methods are out of order.
UnsortedClass ==
    ClassText(<<"c">>, << [name |-> <<"b">>, decorators |-> <<>>],
                          [name |-> <<"a">>, decorators |-> <<>>] >>)

\* What precedes the first function: nothing, an import, or a class.
HeadChoices == { <<>>, <<StmtText(<<"m">>), NL>>, <<UnsortedClass, NL>> }

\* The lines of one function: its decorator lines, its def line and, when
\* blank is set, a blank line after it.
BlockText(block, blank) ==
    Join([i \in 1..Len(block.decorators) |-> <<DecoText(block.decorators[i]), NL>>])
    \o <<DefText(block.name), NL>>
    \o (IF blank THEN <<NL>> ELSE <<>>)

\* A file: the head, the functions, and the last newline dropped when
\* final_newline is FALSE.
RenderFile(head, blocks, blank, final_newline) ==
    LET text == head \o Join([i \in 1..Len(blocks) |-> BlockText(blocks[i], blank)])
    IN  IF final_newline \/ text = <<>> THEN text
        ELSE SubSeq(text, 1, Len(text) - 1)

\* Layouts <<blank, final_newline>>: blank lines between the functions, no
\* blank lines, no blank lines and no newline at the end of the file.
Layouts == { <<TRUE, TRUE>>, <<FALSE, TRUE>>, <<FALSE, FALSE>> }

\* The lists of at most MaxFuncs functions with distinct names.
BlockLists ==
    { blocks \in UNION { [1..n -> Blocks] : n \in 0..MaxFuncs } :
        \A i, j \in 1..Len(blocks) : i # j => blocks[i] # blocks[j] }

GeneratedFiles ==
    { RenderFile(head, blocks, layout[1], layout[2]) :
        head \in HeadChoices,
        blocks \in BlockLists,
        layout \in Layouts }

\* Files with invalid syntax: functions followed by a decorator line that
\* no definition follows.
InvalidFiles ==
    { RenderFile(<<>>, blocks, FALSE, TRUE) \o <<DecoText(RouteDecorator), NL>> :
        blocks \in BlockLists }

\* ------------------------------------------------------------- the tool

VARIABLES
    file,     \* content of the file on disk
    bak,      \* content of the .bak file, <<>> while there is none
    config,   \* AutoFixConfig: dry_run, backup, ignore_decorators
    orig,     \* content of the file when the last sort_file call started
    ret,      \* <<return value>> of the last sort_file call, <<>> before any
    err,      \* the exception the last sort_file call caught, or "none"
    wrote     \* whether the last sort_file call opened the file for writing

VARIABLES
    func_list,    \* the list of function nodes handed to _are_functions_sorted
    sort_config,  \* the CategoryConfig handed to it
    base_list,    \* the list that func_list was made from
    swap_at,      \* 0, or the position i whose elements i, i+1 were exchanged
    is_sorted     \* <<return value>> of _are_functions_sorted, <<>> before the call

VARIABLES
    method,         \* the function node handed to categorize_method
    method_config,  \* the CategoryConfig handed to it
    method_category \* <<return value>> of categorize_method, <<>> before the call

VARIABLES
    project,  \* the Python files under project_root: path |-> content
    checked   \* the last privacy query and its answer, <<>> before any

VARIABLES
    fixer,             \* the class of the privacy fixer in use
    rename_candidate,  \* the RenameCandidate handed to is_safe_to_rename
    safety             \* <<is_safe, issues>> it returned, <<>> before the call

VARIABLES
    batch_paths,      \* the file_paths handed to sort_python_files
    batch_config,     \* the AutoFixConfig handed to it
    batch_disk,       \* the files on disk: path |-> [file, bak]
    batch_pos,        \* the position in file_paths the loop is at
    files_processed,  \* the counter of that name
    files_modified,   \* the counter of that name
    batch_log,        \* the sort_file calls made: [path, ret, err], in order
    batch_result      \* <<(files_processed, files_modified)>> once returned

VARIABLES
    lru_entries,  \* the entries of the lru_cache, least recently used first
    unit_mtime,   \* st_mtime of each file of the project
    scan_size,    \* the number of files the project has
    scan_pos,     \* the file the loop of the graph builder is at
    scan_run,     \* the analysis run (graph build) in progress
    use_log,      \* the keys requested so far, in order
    last_call     \* the last request: key, hit, result, the run that parsed

VARIABLES
    ref_tree,     \* the statements of the module handed to find_function_references
    ref_symbol,   \* the function_name handed to it
    ref_found     \* <<references>> it returned, <<>> before the call
VARIABLES
    ignore_decorators   \* the ignore patterns given to the validator

fixVars == <<file, bak, config, orig, ret, err, wrote>>

sortVars == <<func_list, sort_config, base_list, swap_at, is_sorted,
              ignore_decorators>>

catVars == <<method, method_config, method_category>>

privVars == <<project, checked>>

safeVars == <<fixer, rename_candidate, safety>>

batchVars == <<batch_paths, batch_config, batch_disk, batch_pos,
               files_processed, files_modified, batch_log, batch_result>>

cacheVars == <<lru_entries, unit_mtime, scan_size, scan_pos, scan_run,
               use_log, last_call>>

refVars == <<ref_tree, ref_symbol, ref_found>>

vars == <<fixVars, sortVars, catVars, privVars, safeVars, batchVars,
          cacheVars, refVars>>

\* No file is being fixed.
FixIdle ==
    /\ file = <<>> /\ bak = <<>> /\ config = <<>> /\ orig = <<>>
    /\ ret = <<>> /\ err = "none" /\ wrote = FALSE

\* No list is being validated.
SortIdle ==
    /\ func_list = <<>> /\ sort_config = <<>> /\ base_list = <<>>
    /\ swap_at = 0 /\ is_sorted = <<>> /\ ignore_decorators = <<>>

\* No method is being categorized.
CatIdle == method = <<>> /\ method_config = <<>> /\ method_category = <<>>

\* No project is being analysed.
PrivIdle == project = <<>> /\ checked = <<>>

\* No rename is being validated.
SafeIdle == fixer = <<>> /\ rename_candidate = <<>> /\ safety = <<>>

\* No list of files is being sorted.
BatchIdle ==
    /\ batch_paths = <<>> /\ batch_config = <<>> /\ batch_disk = <<>>
    /\ batch_pos = 0 /\ files_processed = 0 /\ files_modified = 0
    /\ batch_log = <<>> /\ batch_result = <<>>

\* No file is being requested from the cache.
CacheIdle ==
    /\ lru_entries = <<>> /\ unit_mtime = <<>> /\ scan_size = 0
    /\ scan_pos = 0 /\ scan_run = 0 /\ use_log = <<>> /\ last_call = <<>>

\* No references are being looked for.
RefIdle == ref_tree = <<>> /\ ref_symbol = <<>> /\ ref_found = <<>>

Init ==
    /\ file \in GeneratedFiles \cup InvalidFiles
    /\ bak = <<>>
    /\ config \in [dry_run : BOOLEAN, backup : BOOLEAN,
                   ignore_decorators : IgnoreChoices]
    /\ orig = file
    /\ ret = <<>>
    /\ err = "none"
    /\ wrote = FALSE
    /\ SortIdle /\ CatIdle /\ PrivIdle /\ SafeIdle /\ BatchIdle
    /\ CacheIdle /\ RefIdle

\* What sort_file leaves behind.
Outcome(f, b, r, e, w) ==
    /\ file' = f
    /\ bak' = b
    /\ ret' = <<r>>
    /\ err' = e
    /\ wrote' = w
    /\ orig' = file
    /\ UNCHANGED <<config, sortVars, catVars, privVars, safeVars, batchVars,
                   cacheVars, refVars>>

\* The steps of sort_file that may raise: "read" (read_text), "copy"
\* (shutil.copy2), "open" (write_text cannot open the file), "write"
\* (write_text fails after truncating it); "none" when no step raises.
Faults == {"none", "read", "copy", "open", "write"}

\* sort_file that never makes the backup copy.
BackupCopy_Skipped(cfg, original_content, bak0) == bak0

\* The .bak file after "if self.config.backup: shutil.copy2(...)".
BackupCopy(cfg, original_content, bak0) ==
    IF cfg.backup THEN <<original_content>> ELSE bak0

\* sort_file that does not look at dry_run.
ApplyChange_IgnoreDryRun(cfg, original_content, new_content, bak0) ==
    [file |-> new_content,
     bak |-> BackupCopy(cfg, original_content, bak0),
     wrote |-> TRUE]

\* What sort_file does with a new content that differs from the original:
\* nothing under dry_run, else the backup copy and then the write.
ApplyChange(cfg, original_content, new_content, bak0) ==
    IF cfg.dry_run
    THEN [file |-> original_content, bak |-> bak0, wrote |-> FALSE]
    ELSE [file |-> new_content,
          bak |-> BackupCopy(cfg, original_content, bak0),
          wrote |-> TRUE]

\* What a sort_file call leaves behind and returns.
Result(f, b, r, e, w) ==
    [file |-> f, bak |-> b, ret |-> r, err |-> e, wrote |-> w]

\* The outcomes of sort_file once _file_needs_sorting and
\* _sort_functions_in_content have answered.  Every exception is caught and
\* the call returns False: "read" (read_text), "copy" (shutil.copy2), "open"
\* (write_text cannot open the file), "write" (write_text fails after
\* truncating it).
OutcomesFor(original_content, needs_sorting, new_content, bak0, cfg) ==
    { Result(original_content, bak0, FALSE, "read", FALSE) }
    \cup
    (IF ~needs_sorting
     THEN { Result(original_content, bak0, FALSE, "none", FALSE) }
     ELSE IF new_content = original_content
     THEN { Result(original_content, bak0, FALSE, "none", FALSE) }
     ELSE LET done == ApplyChange(cfg, original_content, new_content, bak0)
              bak1 == BackupCopy(cfg, original_content, bak0)
          IN  { Result(done.file, done.bak, TRUE, "none", done.wrote) }
              \cup
              (IF cfg.dry_run THEN {}
               ELSE (IF cfg.backup
                     THEN { Result(original_content, bak0, FALSE, "copy", FALSE) }
                     ELSE {})
                    \cup
                    { Result(original_content, bak1, FALSE, "open", FALSE),
                      Result(<<>>, bak1, FALSE, "write", TRUE) }))

\* FunctionSorter.sort_file on a file with the given content and .bak file:
\* the outcomes [file, bak, ret, err, wrote] it can have.
SortFileOutcomes(original_content, bak0, cfg) ==
    OutcomesFor(original_content,
                FileNeedsSorting(original_content, cfg.ignore_decorators),
                SortFunctionsInContent(original_content, cfg.ignore_decorators),
                bak0, cfg)

\* FunctionSorter(config).sort_file(file_path)
SortFile ==
    \E outcome \in SortFileOutcomes(file, bak, config) :
        Outcome(outcome.file, outcome.bak, outcome.ret, outcome.err,
                outcome.wrote)

Next == SortFile

Spec == Init /\ [][Next]_vars

\* ------------------------------------------------ properties of auto-fix

\* The declarations of a content, as the parser hands them over.
FunctionsOf(content) == GetFunctionsFromNode(Parse(content))

\* The declaration spans of a content.
SpansOf(content) == ExtractFunctionSpans(FunctionsOf(content), SplitLines(content))

\* The file on disk is one no earlier state held: a generated file, or what
\* the last sort_file call wrote.  (Every other call leaves the file as its
\* predecessor state has it.)
FileIsNew == ret = <<>> \/ wrote

\* C1: reorder is idempotent: applying reorder to the output of reorder,
\* under the same ignore_decorators, gives the output of the first
\* application, for every content the file on disk ever has.
C1_ReorderIdempotent ==
    FileIsNew =>
        LET once == Reorder(file, config.ignore_decorators)
        IN  Reorder(once, config.ignore_decorators) = once

\* C1 witness: sort_file has rewritten a file that holds an ignored
\* declaration, and reorder leaves the rewritten file as it is.
C1_Witness ==
    /\ ret = <<TRUE>> /\ wrote /\ err = "none" /\ file # orig
    /\ config.ignore_decorators # <<>>
    /\ \E i \in 1..Len(FunctionsOf(file)) :
          FunctionHasExcludedDecorator(FunctionsOf(file)[i], config.ignore_decorators)
    /\ Reorder(file, config.ignore_decorators) = file

\* The multiset of the texts of a list of spans.
TextBag(spans) ==
    [t \in {spans[i].text : i \in 1..Len(spans)} |->
        Cardinality({i \in 1..Len(spans) : spans[i].text = t})]

\* The content before the first declaration span (all of it when there is
\* no declaration).
HeadOf(content) ==
    LET spans == SpansOf(content)
    IN  IF spans = <<>> THEN content
        ELSE Join(Slice(SplitLines(content), 0,
                        MinOf({spans[i].start_line : i \in 1..Len(spans)})))

\* The content after the last declaration span.
TailOf(content) ==
    LET spans == SpansOf(content)
        lines == SplitLines(content)
    IN  IF spans = <<>> THEN <<>>
        ELSE Join(Slice(lines, MaxOf({spans[i].end_line : i \in 1..Len(spans)}),
                        Len(lines)))

\* C2 as stated: the multiset of declaration span texts of reorder's output
\* equals the multiset of declaration span texts of its input.
C2_SpanTextsEqual ==
    TextBag(SpansOf(Reorder(file, config.ignore_decorators))) = TextBag(SpansOf(file))

\* C2 amended: reorder relocates the span texts and inserts one newline
\* between consecutive spans.  When it changes the file, the spans of the
\* output, each but the last without the newline inserted after it, are as a
\* multiset the span texts of the input.
C2_SpanTextsRelocated ==
    FileIsNew =>
    LET out == Reorder(file, config.ignore_decorators)
        ins == SpansOf(file)
        outs == SpansOf(out)
        n == Len(outs)
        Stripped == [i \in 1..n |->
                        IF i < n THEN SubSeq(outs[i].text, 1, Len(outs[i].text) - 1)
                        ELSE outs[i].text]
    IN  \/ out = file
        \/ /\ Len(ins) = n
           /\ \A i \in 1..(n - 1) : EndsWith(outs[i].text, <<NL>>)
           /\ TextBag([i \in 1..n |-> [text |-> Stripped[i]]]) = TextBag(ins)

\* C2 witness: sort_file has rewritten a file of at least two declarations
\* and the span texts of the result are not those of the input.
C2_Witness ==
    /\ ret = <<TRUE>> /\ wrote /\ err = "none"
    /\ file = Reorder(orig, config.ignore_decorators)
    /\ Len(SpansOf(orig)) >= 2
    /\ TextBag(SpansOf(file)) # TextBag(SpansOf(orig))

\* C3: the content before the first declaration span and the content after
\* the last one are in reorder's output what and where they are in its input.
C3_OutsidePreserved ==
    FileIsNew =>
    LET out == Reorder(file, config.ignore_decorators)
        head == HeadOf(file)
        tail == TailOf(file)
    IN  /\ HeadOf(out) = head
        /\ TailOf(out) = tail
        /\ StartsWith(out, head)
        /\ EndsWith(out, tail)

\* C3 witness: sort_file has rewritten a file that starts with content that
\* is no declaration, and that content is still at the start.
C3_Witness ==
    /\ ret = <<TRUE>> /\ wrote /\ err = "none" /\ file # orig
    /\ HeadOf(orig) # <<>>
    /\ HeadOf(file) = HeadOf(orig)

\* Legacy canonical order: every public name before every private name and
\* each group ascending.
InCanonicalOrder(functions) ==
    /\ \A i, j \in 1..Len(functions) :
          (i < j /\ IsPrivateFunction(functions[i].name))
              => IsPrivateFunction(functions[j].name)
    /\ \A i \in 1..(Len(functions) - 1) :
          (IsPrivateFunction(functions[i].name)
              <=> IsPrivateFunction(functions[i + 1].name))
              => StrLeq(functions[i].name, functions[i + 1].name)

\* C4 as stated: with no ignored decorators, sort_file on a file whose
\* declarations are not in canonical order returns True and leaves the
\* public declarations ascending followed by the private ones ascending.
C4_UnsortedFileIsSorted ==
    (/\ ret # <<>> /\ err = "none"
     /\ config.ignore_decorators = <<>> /\ ~config.dry_run
     /\ ~InCanonicalOrder(FunctionsOf(orig)))
        => (ret = <<TRUE>> /\ InCanonicalOrder(FunctionsOf(file)))

\* C5: when the declarations of the file are already sorted under the
\* active configuration, sort_file returns False, does not open the file
\* for writing and leaves its content as it was.
C5_SortedFileUntouched ==
    (/\ ret # <<>>
     /\ AreFunctionsSortedWithExclusions(FunctionsOf(orig),
                                         config.ignore_decorators, DefaultConfig))
        => (file = orig /\ ~wrote /\ ret = <<FALSE>>)

\* C5 witness: sort_file has returned False on a file of at least two
\* sorted declarations, one of them ignored, and had nothing to write.
C5_Witness ==
    /\ ret = <<FALSE>> /\ err = "none" /\ ~wrote /\ file = orig
    /\ Len(FunctionsOf(orig)) >= 2
    /\ \E i \in 1..Len(FunctionsOf(orig)) :
          FunctionHasExcludedDecorator(FunctionsOf(orig)[i], config.ignore_decorators)
    /\ AreFunctionsSortedWithExclusions(FunctionsOf(orig),
                                        config.ignore_decorators, DefaultConfig)

\* C6 as stated: a declaration with an ignored decorator is at the same
\* position among the declarations after sort_file has rewritten the file.
C6_ExcludedStayInPlace ==
    (ret = <<TRUE>> /\ wrote /\ err = "none")
        => \A i \in 1..Len(FunctionsOf(orig)) :
              FunctionHasExcludedDecorator(FunctionsOf(orig)[i],
                                           config.ignore_decorators)
                  => /\ i <= Len(FunctionsOf(file))
                     /\ FunctionsOf(file)[i].name = FunctionsOf(orig)[i].name
                     /\ FunctionsOf(file)[i].decorators = FunctionsOf(orig)[i].decorators


\* The function takes part in the sorting: no ignore pattern matches one of
\* its decorators.
IsSortable(f) == ~FunctionHasExcludedDecorator(f, config.ignore_decorators)

\* No sortable public declaration of the content follows a sortable
\* private one.
PublicBeforePrivate(content) ==
    \A i, j \in 1..Len(FunctionsOf(content)) :
        (/\ i < j
         /\ IsSortable(FunctionsOf(content)[i])
         /\ IsSortable(FunctionsOf(content)[j]))
            => ~(/\ IsPrivateFunction(FunctionsOf(content)[i].name)
                 /\ ~IsPrivateFunction(FunctionsOf(content)[j].name))

\* C29 as stated: after sort_file has run on a file without error and not
\* as a dry run, every sortable public declaration of the file precedes
\* every sortable private one.
C29_PublicBeforePrivate ==
    (ret # <<>> /\ err = "none" /\ ~config.dry_run)
        => PublicBeforePrivate(file)

\* C30 as stated: after sort_file has rewritten a file that the
\* needs-sorting check flagged, the check no longer flags the file.
C30_RewrittenFileNotFlagged ==
    (/\ ret # <<>> /\ err = "none" /\ ~config.dry_run
     /\ FileNeedsSorting(orig, config.ignore_decorators))
        => ~FileNeedsSorting(file, config.ignore_decorators)

\* The content of the file cannot be parsed.
HasInvalidSyntax(content) == content \in InvalidFiles

\* C16: when the file cannot be read or cannot be parsed, sort_file leaves
\* it as it was, opens nothing for writing, makes no backup and returns
\* False.
C16_AnalysisFailureLeavesFile ==
    [][(err' = "read" \/ HasInvalidSyntax(file)) =>
          /\ file' = file
          /\ bak' = bak
          /\ ~wrote'
          /\ ret' = <<FALSE>>]_vars

\* A file with c before a and invalid syntax after them was handed to
\* sort_file, which returned False and left it alone.
C16_Witness ==
    /\ orig = <<DefText(<<"c">>), NL, DefText(<<"a">>), NL,
                DecoText(RouteDecorator), NL>>
    /\ ret = <<FALSE>>
    /\ err = "none"
    /\ file = orig
    /\ ~wrote

\* C17: with backup enabled, a sort_file call opens the file for writing
\* only after the .bak file holds the content the file had when the call
\* started, whatever step fails; so after every call that content is in the
\* file or in the .bak file.
C17_OriginalAlwaysAvailable ==
    [][config.backup =>
          /\ wrote' => bak' = <<file>>
          /\ file' = file \/ bak' = <<file>>]_vars

\* The write failed after the backup was made: the file is damaged and the
\* backup holds the original.
C17_Witness ==
    /\ config.backup
    /\ err = "write"
    /\ ret = <<FALSE>>
    /\ file # orig
    /\ bak = <<orig>>

\* C18: under dry_run a sort_file call leaves the file and the .bak file as
\* they are, and returns True exactly when the call reads the file and the
\* reordered content differs from the original, which is when the call
\* without dry_run modifies the file.
C18_DryRunWritesNothing ==
    [][config.dry_run =>
          /\ file' = file
          /\ bak' = bak
          /\ ~wrote'
          /\ ret'[1] <=>
                (err' = "none"
                 /\ Reorder(file, config.ignore_decorators) # file)]_vars

\* A dry run answered True and nothing was written.
C18_Witness ==
    /\ config.dry_run
    /\ ret = <<TRUE>>
    /\ Reorder(orig, config.ignore_decorators) # orig
    /\ file = orig
    /\ bak = <<>>
    /\ ~wrote

\* ---------------------------------------------------- validator inputs

\* The function nodes of the validated lists: public a and b, private _a
\* and _b, and t, which the test category of SortConfigs claims.
SortPool ==
    { [name |-> <<"a">>, decorators |-> <<>>],
      [name |-> <<"b">>, decorators |-> <<>>],
      [name |-> <<"_", "a">>, decorators |-> <<>>],
      [name |-> <<"_", "b">>, decorators |-> <<>>],
      [name |-> <<"t">>, decorators |-> <<>>] }

\* Categories test_methods (t*) and private_methods (_*); every other name
\* falls back to default_category, which is not one of the two.
TestThenPrivate ==
    << MethodCategory("test_methods", << <<"t", "*">> >>, <<>>, 0),
       MethodCategory("private_methods", << <<"_", "*">> >>, <<>>, 0) >>

\* The configurations of the validated lists: CategoryConfig(), the default
\* categories enabled with either category_sorting, and TestThenPrivate.
SortConfigs ==
    { DefaultConfig,
      CategoryConfig(<<>>, "public_methods", TRUE, "alphabetical"),
      CategoryConfig(<<>>, "public_methods", TRUE, "declaration"),
      CategoryConfig(TestThenPrivate, "public_methods", TRUE, "alphabetical") }

\* The list with the elements at positions i and i + 1 exchanged (i = 0:
\* the list itself).
SwapAdjacent(list, i) ==
    IF i = 0 THEN list
    ELSE [k \in 1..Len(list) |->
            IF k = i THEN list[i + 1] ELSE IF k = i + 1 THEN list[i] ELSE list[k]]

\* ------------------------------------------------------- the validator

InitSorted ==
    /\ base_list \in UNION { [1..n -> SortPool] : n \in 0..MaxFuncs }
    /\ swap_at \in 0..MaxFuncs
    /\ swap_at < Len(base_list)
    /\ func_list = SwapAdjacent(base_list, swap_at)
    /\ sort_config \in SortConfigs
    /\ ignore_decorators = <<>>
    /\ is_sorted = <<>>
    /\ FixIdle /\ CatIdle /\ PrivIdle /\ SafeIdle /\ BatchIdle
    /\ CacheIdle /\ RefIdle

\* utils.are_functions_sorted_with_exclusions(functions, ignore_decorators,
\* config)
IsSortedCall ==
    /\ is_sorted = <<>>
    /\ is_sorted' = <<AreFunctionsSortedWithExclusions(
                         func_list, ignore_decorators, sort_config)>>
    /\ UNCHANGED <<func_list, sort_config, base_list, swap_at,
                   ignore_decorators>>
    /\ UNCHANGED <<fixVars, catVars, privVars, safeVars, batchVars,
                   cacheVars, refVars>>

NextSorted == IsSortedCall

SpecSorted == InitSorted /\ [][NextSorted]_vars

\* ------------------------------------- the validator with ignore patterns

\* Decorator lists: none, @a.r(), @c.r, @a.b.r and @p.
ExclDecorators ==
    { <<>>,
      <<CallNode(AttributeNode(NameNode(<<"a">>), <<"r">>))>>,
      <<AttributeNode(NameNode(<<"c">>), <<"r">>)>>,
      <<AttributeNode(AttributeNode(NameNode(<<"a">>), <<"b">>), <<"r">>)>>,
      <<NameNode(<<"p">>)>> }

ExclPool ==
    { [name |-> n, decorators |-> d] : n \in { <<"a">>, <<"b">> },
                                       d \in ExclDecorators }

\* ignore_decorators: none, "@a.r", "a.r()" and "@*.r".
ExclIgnoreChoices ==
    { <<>>,
      << <<"@", "a", ".", "r">> >>,
      << <<"a", ".", "r", "(", ")">> >>,
      << <<"@", "*", ".", "r">> >> }

InitExcl ==
    /\ func_list \in UNION { [1..n -> ExclPool] : n \in 0..MaxFuncs }
    /\ base_list = func_list
    /\ swap_at = 0
    /\ sort_config \in { DefaultConfig,
                          CategoryConfig(<<>>, "public_methods", TRUE,
                                         "alphabetical") }
    /\ ignore_decorators \in ExclIgnoreChoices
    /\ is_sorted = <<>>
    /\ FixIdle /\ CatIdle /\ PrivIdle /\ SafeIdle /\ BatchIdle
    /\ CacheIdle /\ RefIdle

SpecExcl == InitExcl /\ [][NextSorted]_vars

\* ------------------------------------------- properties of the validator

\* Position of a function's category in the canonical order: public before
\* private in legacy mode, the order of config.categories otherwise, with
\* the categories that are not listed last.
CanonIndex(f, cfg) ==
    IF ~cfg.enable_categories
    THEN IF CategorizeMethod(f, cfg) = "private_methods" THEN 1 ELSE 0
    ELSE CategoryIndex(CategorizeMethod(f, cfg), cfg)

\* f may precede g: an earlier category, or the same and a name not larger.
InOrder(f, g, cfg) ==
    \/ CanonIndex(f, cfg) < CanonIndex(g, cfg)
    \/ /\ CanonIndex(f, cfg) = CanonIndex(g, cfg)
       /\ StrLeq(f.name, g.name)

\* Canonical category order and alphabetical order within each category.
Canonical(list, cfg) ==
    \A i, j \in 1..Len(list) : i < j => InOrder(list[i], list[j], cfg)

\* The exchange at swap_at put the two declarations out of order.
SwappedOutOfOrder ==
    /\ swap_at > 0
    /\ Canonical(base_list, sort_config)
    /\ ~InOrder(func_list[swap_at], func_list[swap_at + 1], sort_config)

SwapIsChecked ==
    LET f == func_list[swap_at]
        g == func_list[swap_at + 1]
        cf == CategorizeMethod(f, sort_config)
        cg == CategorizeMethod(g, sort_config)
    IN  IF ~sort_config.enable_categories THEN cf = cg
        ELSE \/ CanonIndex(f, sort_config) # CanonIndex(g, sort_config)
             \/ /\ cf = cg
                /\ sort_config.category_sorting = "alphabetical"
                /\ \E c \in 1..Len(sort_config.categories) :
                      sort_config.categories[c].name = cf

ListedPosition(category, cfg) ==
    IF \E i \in 1..Len(cfg.categories) : cfg.categories[i].name = category
    THEN CHOOSE i \in 1..Len(cfg.categories) : cfg.categories[i].name = category
    ELSE 0

\* The category of the function at position i of the validated list.
CategoryAt(i) == CategorizeMethod(func_list[i], sort_config)

\* C24: with enable_categories true, a list that is_sorted accepts has its
\* listed categories in the order of config.categories (no function of an
\* earlier category after one of a later category) and returns to no
\* category it has left.
C24_CategoryBlocksInOrder ==
    (/\ is_sorted = <<TRUE>>
     /\ sort_config.enable_categories)
        => /\ \A i, j \in 1..Len(func_list) :
                 (/\ i < j
                  /\ ListedPosition(CategoryAt(i), sort_config) # 0
                  /\ ListedPosition(CategoryAt(j), sort_config) # 0)
                    => ListedPosition(CategoryAt(i), sort_config)
                          <= ListedPosition(CategoryAt(j), sort_config)
           /\ \A i, k, j \in 1..Len(func_list) :
                 (i < k /\ k < j /\ CategoryAt(i) = CategoryAt(j))
                    => CategoryAt(k) = CategoryAt(i)

\* A test method between two private methods: the private category is left
\* and entered again, and the list is rejected.
C24_Witness ==
    /\ sort_config.enable_categories
    /\ sort_config.categories = TestThenPrivate
    /\ Names(func_list) = << <<"_", "a">>, <<"t">>, <<"_", "b">> >>
    /\ is_sorted = <<FALSE>>

\* C25: with enable_categories true and category_sorting alphabetical, a
\* list that is_sorted accepts has the names of every category, the
\* default_category fallback included, in ascending order.
C25_AlphabeticalInEveryCategory ==
    (/\ is_sorted = <<TRUE>>
     /\ sort_config.enable_categories
     /\ sort_config.category_sorting = "alphabetical")
        => \A i, j \in 1..Len(func_list) :
              (i < j /\ CategoryAt(i) = CategoryAt(j))
                 => StrLeq(func_list[i].name, func_list[j].name)

\* -------------------------------------------------- categorizer inputs

\* The decorator @p (a property).
PropertyDecorator == NameNode(<<"p">>)

\* Names with no, one and two leading underscores, with and without
\* trailing underscores, and a test name.
MethodNames ==
    { <<"a">>, <<"_">>, <<"_", "a">>, <<"_", "a", "_", "_">>,
      <<"_", "_">>, <<"_", "_", "a">>, <<"_", "_", "a", "_", "_">>,
      <<"t", "_", "a">> }

MethodPool ==
    [name : MethodNames, decorators : { <<>>, <<PropertyDecorator>> }]

\* Properties by decorator, tests by name, then the binary categories.
Layered ==
    << MethodCategory("properties", <<>>, << <<"@", "p">> >>, 0),
       MethodCategory("test_methods", << <<"t", "_", "*">> >>, <<>>, 0),
       MethodCategory("public_methods", << <<"*">> >>, <<>>, 0),
       MethodCategory("private_methods", << <<"_", "*">> >>, <<>>, 1) >>

\* Three categories whose name patterns overlap; no pattern matches a name
\* without a leading underscore.
Tied ==
    << MethodCategory("short", << <<"_", "?">> >>, <<>>, 0),
       MethodCategory("private_methods", << <<"_", "*">> >>, <<>>, 0),
       MethodCategory("mangled", << <<"_", "_", "*">> >>, <<>>, 2) >>

\* A category that lists the catch-all before a specific pattern.
CatchAllFirst ==
    << MethodCategory("public_methods", << <<"*">>, <<"t", "_", "*">> >>, <<>>, 0),
       MethodCategory("test_methods", << <<"t", "*">> >>, <<>>, 0),
       MethodCategory("private_methods", << <<"_", "*">> >>, <<>>, 1) >>

MethodConfigs ==
    { DefaultConfig,
      CategoryConfig(Layered, "misc", FALSE, "alphabetical"),
      CategoryConfig(<<>>, "public_methods", TRUE, "alphabetical"),
      CategoryConfig(Layered, "public_methods", TRUE, "alphabetical"),
      CategoryConfig(Tied, "misc", TRUE, "alphabetical"),
      CategoryConfig(CatchAllFirst, "public_methods", TRUE, "alphabetical") }

\* ------------------------------------------------------ the categorizer

InitCat ==
    /\ method \in MethodPool
    /\ method_config \in MethodConfigs
    /\ method_category = <<>>
    /\ FixIdle /\ SortIdle /\ PrivIdle /\ SafeIdle /\ BatchIdle
    /\ CacheIdle /\ RefIdle

\* utils.categorize_method(func, config)
CategorizeCall ==
    /\ method_category = <<>>
    /\ method_category' = <<CategorizeMethod(method, method_config)>>
    /\ UNCHANGED <<method, method_config>>
    /\ UNCHANGED <<fixVars, sortVars, privVars, safeVars, batchVars,
                   cacheVars, refVars>>

NextCat == CategorizeCall

SpecCat == InitCat /\ [][NextCat]_vars

\* ----------------------------------------- properties of the categorizer

\* The name starts and ends with two underscores.
DunderName(name) ==
    /\ Len(name) >= 2
    /\ name[1] = "_" /\ name[2] = "_"
    /\ name[Len(name) - 1] = "_" /\ name[Len(name)] = "_"

\* The name begins with exactly one underscore.
OneLeadingUnderscore(name) ==
    /\ name # <<>>
    /\ name[1] = "_"
    /\ Len(name) = 1 \/ name[2] # "_"

StatedScore(f, cat) ==
    IF /\ cat.decorators # <<>>
       /\ \E d \in 1..Len(GetDecoratorStrings(f.decorators)) :
             DecoratorMatchesPattern(GetDecoratorStrings(f.decorators)[d],
                                     cat.decorators[1])
    THEN 100
    ELSE IF cat.patterns = <<>> THEN 0
    ELSE IF cat.patterns[1] = <<"*">> THEN 1
    ELSE IF MethodNameMatchesPattern(f.name, cat.patterns[1]) THEN 50
    ELSE 0

LegacyCategory(name) ==
    IF name[1] = "_" /\ ~DunderName(name) THEN "private_methods"
    ELSE "public_methods"

\* C22: with the default two categories and enable_categories true,
\* categorize gives every name the category of the legacy rule; a dunder
\* name is public.
C22_DefaultCategoriesMatchLegacy ==
    (/\ method_category # <<>>
     /\ method_config.enable_categories
     /\ method_config.categories = GetDefaultCategories)
        => /\ method_category[1] = LegacyCategory(method.name)
           /\ DunderName(method.name) => method_category[1] = "public_methods"

\* The scores of the patterns of a category that match the function: 100
\* for a decorator pattern, 1 for the bare *, 50 for another name pattern.
MatchingScores(f, cat) ==
    {100 : i \in {k \in 1..Len(cat.decorators) :
                    \E d \in 1..Len(GetDecoratorStrings(f.decorators)) :
                        DecoratorMatchesPattern(
                            GetDecoratorStrings(f.decorators)[d],
                            cat.decorators[k])}}
    \cup
    {IF cat.patterns[i] = <<"*">> THEN 1 ELSE 50 :
        i \in {k \in 1..Len(cat.patterns) :
                  MethodNameMatchesPattern(f.name, cat.patterns[k])}}

\* C23: the match priority of every category for the function is the
\* largest score among the category's patterns that match it, 0 when none
\* does, in whatever order the patterns are listed.
C23_MatchPriorityIsMaximum ==
    (method_category # <<>> /\ method_config.enable_categories) =>
        \A c \in 1..Len(method_config.categories) :
            GetCategoryMatchPriority(method, method_config.categories[c]) =
                MaxOf(MatchingScores(method, method_config.categories[c]) \cup {0})

\* ------------------------------------------------------ usage analysis

\* str.lower(), for the characters of the modelled paths
LowerChar(c) == IF c = "T" THEN "t" ELSE c

Lower(s) == [i \in 1..Len(s) |-> LowerChar(s[i])]

\* sub in s
Contains(s, sub) ==
    \E i \in 1..(Len(s) - Len(sub) + 1) : SubSeq(s, i, i + Len(sub) - 1) = sub

\* The piece of s before the first sep, all of s when there is none.
RECURSIVE FirstPiece(_, _)
FirstPiece(s, sep) ==
    IF s = <<>> \/ Head(s) = sep THEN <<>>
    ELSE <<Head(s)>> \o FirstPiece(Tail(s), sep)

\* str.split(sep) for a one-character sep
RECURSIVE Split(_, _)
Split(s, sep) ==
    LET piece == FirstPiece(s, sep)
    IN  IF Len(piece) = Len(s) THEN <<piece>>
        ELSE <<piece>> \o Split(SubSeq(s, Len(piece) + 2, Len(s)), sep)

\* sep.join(parts)
RECURSIVE JoinWith(_, _)
JoinWith(parts, sep) ==
    IF parts = <<>> THEN <<>>
    ELSE IF Len(parts) = 1 THEN parts[1]
    ELSE parts[1] \o <<sep>> \o JoinWith(Tail(parts), sep)

\* The directories find_python_files does not descend into.
SkipDirs ==
    { <<"_", "_", "p", "y", "c", "a", "c", "h", "e", "_", "_">>,
      <<".", "g", "i", "t">>,
      <<".", "t", "o", "x">>,
      <<".", "p", "y", "t", "e", "s", "t", "_", "c", "a", "c", "h", "e">>,
      <<".", "m", "y", "p", "y", "_", "c", "a", "c", "h", "e">>,
      <<"v", "e", "n", "v">>,
      <<".", "v", "e", "n", "v">>,
      <<"e", "n", "v">>,
      <<".", "e", "n", "v">>,
      <<"b", "u", "i", "l", "d">>,
      <<"d", "i", "s", "t">>,
      <<"*", ".", "e", "g", "g", "-", "i", "n", "f", "o">>,
      <<"n", "o", "d", "e", "_", "m", "o", "d", "u", "l", "e", "s">> }

\* utils.find_python_files: the files of the project, a path being the list
\* of its parts below project_root with the .py suffix left off, that have
\* no part in skip_dirs.
FindPythonFiles(proj) ==
    {p \in DOMAIN proj : ~\E i \in 1..Len(p) : p[i] \in SkipDirs}

\* str(relative_path.with_suffix("")).replace(os.sep, ".")
ModuleName(relative_path) == JoinWith(relative_path, ".")

\* utils.is_unittest_file with privacy_config = None: the built-in detection
IsUnittestFile(module_name) ==
    LET lower_name == Lower(module_name)
        parts == Split(lower_name, ".")
        filename == parts[Len(parts)]
    IN  \/ \E i \in 1..Len(parts) :
              parts[i] = <<"t", "e", "s", "t", "s">> \/ parts[i] = <<"t", "e", "s", "t">>
        \/ StartsWith(filename, <<"t", "e", "s", "t", "_">>)
        \/ EndsWith(filename, <<"_", "t", "e", "s", "t">>)
        \/ filename = <<"c", "o", "n", "f", "t", "e", "s", "t">>
        \/ Contains(lower_name, <<"t", "e", "s", "t">>)

\* Statements of a file: import module [as asname], from module import
\* name [as asname] (module is <<>> for "from . import name"), and an
\* expression value.attr whose value is a plain name.
ImportStmt(module, asname) ==
    [t |-> "Import", module |-> module, name |-> <<>>, asname |-> asname]

ImportFromStmt(module, name, asname) ==
    [t |-> "ImportFrom", module |-> module, name |-> name, asname |-> asname]

AttributeExpr(value, attr) ==
    [t |-> "Attribute", module |-> value, name |-> attr, asname |-> <<>>]

\* alias.asname if alias.asname else alias.name
AliasName(st) ==
    IF st.asname # <<>> THEN st.asname
    ELSE IF st.t = "Import" THEN st.module ELSE st.name

\* The statements that bind an alias in imported_modules.
BindsAlias(st) ==
    st.t = "Import" \/ (st.t = "ImportFrom" /\ st.module # <<>>)

\* The walk of _extract_imports_from_file over the statements of a parsed
\* file.  imported_modules maps an alias to the module of the last statement
\* that binds it.
RecordImports(body) ==
    LET binders(alias) == {i \in 1..Len(body) :
                             BindsAlias(body[i]) /\ AliasName(body[i]) = alias}
        imported(alias) ==
            body[CHOOSE i \in binders(alias) : \A j \in binders(alias) : j <= i].module
    IN  [module_imports |->
             {body[i].module : i \in {k \in 1..Len(body) : BindsAlias(body[k])}},
         function_imports |->
             {<<body[i].module, body[i].name>> :
                 i \in {k \in 1..Len(body) :
                           body[k].t = "ImportFrom" /\ body[k].module # <<>>}},
         attribute_accesses |->
             {<<imported(body[i].module), body[i].name>> :
                 i \in {k \in 1..Len(body) :
                           /\ body[k].t = "Attribute"
                           /\ binders(body[k].module) # {}}}]

\* _extract_imports_from_file that reads what it can of a file that does
\* not parse.
ExtractImportsFromFile_NoExcept(content) == RecordImports(content.body)

\* utils._extract_imports_from_file on the content of a file: ok is FALSE
\* for a content that cannot be read or parsed.
ExtractImportsFromFile(content) ==
    IF ~content.ok
    THEN [module_imports |-> {}, function_imports |-> {}, attribute_accesses |-> {}]
    ELSE RecordImports(content.body)

\* The modules _build_cross_module_usage_graph reads: not __init__ files and
\* not test files.
RetainedFiles(proj) ==
    {p \in FindPythonFiles(proj) :
        /\ ~EndsWith(ModuleName(p), <<"_", "_", "i", "n", "i", "t", "_", "_">>)
        /\ ~IsUnittestFile(ModuleName(p))}

\* The names a file uses, without the attribute accesses.
NamesUsedBy_ImportsOnly(content) ==
    {pair[2] : pair \in ExtractImportsFromFile(content).function_imports}

\* The function names a file uses: imported by name or accessed as an
\* attribute of an imported alias.
NamesUsedBy(content) ==
    {pair[2] : pair \in ExtractImportsFromFile(content).function_imports
                        \cup ExtractImportsFromFile(content).attribute_accesses}

\* utils._build_cross_module_usage_graph: function name |-> the set of the
\* module names that use it; a name no module uses has no entry.
BuildCrossModuleUsageGraph(proj) ==
    LET used == UNION {NamesUsedBy(proj[p]) : p \in RetainedFiles(proj)}
    IN  [function_name \in used |->
            {ModuleName(p) : p \in {q \in RetainedFiles(proj) :
                                       function_name \in NamesUsedBy(proj[q])}}]

\* _is_function_used_externally without the exclusion of the own module.
IsFunctionUsedExternally_AnyUse(func_name, module_path, proj) ==
    func_name \in DOMAIN BuildCrossModuleUsageGraph(proj)

\* utils._is_function_used_externally.  module_path is [inside, parts]:
\* relative_to(project_root) raises ValueError when it is not inside.
IsFunctionUsedExternally(func_name, module_path, proj) ==
    LET usage_graph == BuildCrossModuleUsageGraph(proj)
    IN  IF func_name \notin DOMAIN usage_graph THEN FALSE
        ELSE IF ~module_path.inside THEN TRUE
        ELSE \E m \in usage_graph[func_name] : m # ModuleName(module_path.parts)

\* The default public_patterns of should_function_be_private.
DefaultPublicPatterns ==
    { <<"m", "a", "i", "n">>,
      <<"r", "u", "n">>,
      <<"e", "x", "e", "c", "u", "t", "e">>,
      <<"s", "t", "a", "r", "t">>,
      <<"s", "t", "o", "p">>,
      <<"s", "e", "t", "u", "p">>,
      <<"t", "e", "a", "r", "d", "o", "w", "n">> }

\* utils.should_function_be_private; public_patterns is <<>> for None, else
\* <<the set of names>>.
ShouldFunctionBePrivate(func, module_path, proj, public_patterns) ==
    IF IsPrivateFunction(func.name) THEN FALSE
    ELSE IF IsDunderMethod(func.name) THEN FALSE
    ELSE IF func.name \in (IF public_patterns = <<>> THEN DefaultPublicPatterns
                           ELSE public_patterns[1])
    THEN FALSE
    ELSE ~IsFunctionUsedExternally(func.name, module_path, proj)

\* should_function_be_public without the usage analysis.
ShouldFunctionBePublic_NoUsageCheck(func, module_path, proj) ==
    IsPrivateFunction(func.name) /\ ~IsDunderMethod(func.name)

\* utils.should_function_be_public(func, module_path, project_root)
ShouldFunctionBePublic(func, module_path, proj) ==
    IF ~IsPrivateFunction(func.name) THEN FALSE
    ELSE IF IsDunderMethod(func.name) THEN FALSE
    ELSE IsFunctionUsedExternally(func.name, module_path, proj)

\* ------------------------------------------------------ project inputs

\* File contents: parsed statements, or a content that cannot be parsed.
Parsed(body) == [ok |-> TRUE, body |-> body]

Unparsable(body) == [ok |-> FALSE, body |-> body]

\* from m import a
FromMImportA == ImportFromStmt(<<"m">>, <<"a">>, <<>>)

\* The files of the project below project_root and the contents each may
\* have: module m (the module under analysis), module n, the test module
\* Test_m, the package file p/__init__ and a file in a virtual environment.
ProjectFiles ==
    { << <<"m">> >>, << <<"n">> >>, << <<"T", "e", "s", "t", "_", "m">> >>,
      << <<"p">>, <<"_", "_", "i", "n", "i", "t", "_", "_">> >>,
      << <<"v", "e", "n", "v">>, <<"n">> >> }

ContentChoices(path) ==
    IF path = << <<"m">> >>
    THEN { Parsed(<<>>),
           Parsed(<<ImportStmt(<<"n">>, <<>>), AttributeExpr(<<"n">>, <<"a">>)>>),
           Parsed(<<ImportFromStmt(<<"n">>, <<"_", "_", "a">>, <<>>)>>) }
    ELSE IF path = << <<"n">> >>
    THEN { Parsed(<<>>),
           Parsed(<<FromMImportA>>),
           Parsed(<<ImportStmt(<<"m">>, <<"x">>), AttributeExpr(<<"x">>, <<"a">>)>>),
           Parsed(<<ImportStmt(<<"m">>, <<>>), AttributeExpr(<<"x">>, <<"a">>)>>),
           Parsed(<<ImportFromStmt(<<"m">>, <<"_", "a">>, <<>>),
                    ImportFromStmt(<<>>, <<"a">>, <<>>)>>),
           Unparsable(<<FromMImportA>>) }
    ELSE { Parsed(<<>>), Parsed(<<FromMImportA>>) }

Projects ==
    {pr \in [ProjectFiles -> UNION {ContentChoices(p) : p \in ProjectFiles}] :
        \A p \in ProjectFiles : pr[p] \in ContentChoices(p)}

\* The functions asked about, the module_path arguments (m and n inside
\* project_root, and a path outside of it) and the public_patterns
\* arguments (None, and a set that names a).
QueryFuncs ==
    [name : { <<"a">>, <<"b">>, <<"_", "a">>, <<"_", "_", "a">>,
              <<"_", "_", "a", "_", "_">>, <<"m", "a", "i", "n">> },
     decorators : { <<>> }]

QueryPaths ==
    { [inside |-> TRUE, parts |-> << <<"m">> >>],
      [inside |-> TRUE, parts |-> << <<"n">> >>],
      [inside |-> FALSE, parts |-> << <<"m">> >>] }

QueryPatterns == { <<>>, << { <<"a">> } >> }

\* ----------------------------------------------------- the privacy check

InitPriv ==
    /\ project \in Projects
    /\ checked = <<>>
    /\ FixIdle /\ SortIdle /\ CatIdle /\ SafeIdle /\ BatchIdle
    /\ CacheIdle /\ RefIdle

\* utils.should_function_be_private(func, module_path, project_root,
\* public_patterns)
ShouldBePrivateCall(func, module_path, public_patterns) ==
    /\ checked' = [op |-> "should_function_be_private",
                   func |-> func,
                   module_path |-> module_path,
                   public_patterns |-> public_patterns,
                   result |-> ShouldFunctionBePrivate(func, module_path, project,
                                                      public_patterns)]
    /\ UNCHANGED project
    /\ UNCHANGED <<fixVars, sortVars, catVars, safeVars, batchVars,
                   cacheVars, refVars>>

\* utils.should_function_be_public(func, module_path, project_root)
ShouldBePublicCall(func, module_path) ==
    /\ checked' = [op |-> "should_function_be_public",
                   func |-> func,
                   module_path |-> module_path,
                   public_patterns |-> <<>>,
                   result |-> ShouldFunctionBePublic(func, module_path, project)]
    /\ UNCHANGED project
    /\ UNCHANGED <<fixVars, sortVars, catVars, safeVars, batchVars,
                   cacheVars, refVars>>

NextPriv ==
    \E func \in QueryFuncs, module_path \in QueryPaths :
        \/ \E public_patterns \in QueryPatterns :
              ShouldBePrivateCall(func, module_path, public_patterns)
        \/ ShouldBePublicCall(func, module_path)

SpecPriv == InitPriv /\ [][NextPriv]_vars

\* --------------------------------------- properties of the privacy check

\* The consuming units the usage graph lists for a name.
ConsumersOf(name) ==
    IF name \in DOMAIN BuildCrossModuleUsageGraph(project)
    THEN BuildCrossModuleUsageGraph(project)[name]
    ELSE {}

\* The usage graph lists a consuming unit for the name that is not the
\* unit of the declaration (a path outside the project is no unit of it).
HasOtherConsumer(name, path) ==
    \E unit \in ConsumersOf(name) :
        ~path.inside \/ unit # JoinWith(path.parts, ".")

\* The exemption set in force for a query.
ExemptNames(patterns) ==
    IF patterns = <<>> THEN DefaultPublicPatterns ELSE patterns[1]

\* C10: should_be_private is true exactly for a declaration that is public,
\* is not a dunder, has a name outside the exemption set and has no
\* consuming unit other than its own in the usage graph; main is never
\* flagged under the default exemption set.
C10_PrivateIffUnusedElsewhere ==
    (checked # <<>> /\ checked.op = "should_function_be_private") =>
        /\ checked.result <=>
              /\ ~(checked.func.name[1] = "_" /\ ~DunderName(checked.func.name))
              /\ ~DunderName(checked.func.name)
              /\ checked.func.name \notin ExemptNames(checked.public_patterns)
              /\ ~HasOtherConsumer(checked.func.name, checked.module_path)
        /\ (checked.func.name = <<"m", "a", "i", "n">>
                /\ checked.public_patterns = <<>>) => ~checked.result

\* The function a of module m, which only m itself uses, has been flagged.
C10_Witness ==
    /\ checked # <<>>
    /\ checked.op = "should_function_be_private"
    /\ checked.func.name = <<"a">>
    /\ checked.module_path = [inside |-> TRUE, parts |-> << <<"m">> >>]
    /\ ConsumersOf(<<"a">>) = { <<"m">> }
    /\ checked.result

\* The statements of a file import the name from a module or access it as
\* alias.name, alias being bound by an import of the file.
MentionsSymbol(content, name) ==
    \E i \in 1..Len(content.body) :
        \/ content.body[i].t = "ImportFrom" /\ content.body[i].name = name
        \/ /\ content.body[i].t = "Attribute"
           /\ content.body[i].name = name
           /\ \E j \in 1..Len(content.body) :
                 /\ content.body[j].t \in {"Import", "ImportFrom"}
                 /\ AliasName(content.body[j]) = content.body[i].module

\* The file at path p is another unit than the one the query is about.
OtherUnit(p, path) == ~path.inside \/ p # path.parts

\* C11 as stated: a function that any other file of the project imports or
\* accesses as alias.name is never classified "should be private".
C11_ReferencedNeverPrivate ==
    (/\ checked # <<>>
     /\ checked.op = "should_function_be_private"
     /\ \E p \in DOMAIN project :
           /\ OtherUnit(p, checked.module_path)
           /\ MentionsSymbol(project[p], checked.func.name))
        => ~checked.result

\* The file parses and binds or accesses the name in a way the scan
\* records: "from module import name" with a module named, or alias.name.
RecordedMention(content, name) ==
    /\ content.ok
    /\ \E i \in 1..Len(content.body) :
          \/ /\ content.body[i].t = "ImportFrom"
             /\ content.body[i].module # <<>>
             /\ content.body[i].name = name
          \/ /\ content.body[i].t = "Attribute"
             /\ content.body[i].name = name
             /\ \E j \in 1..Len(content.body) :
                   /\ BindsAlias(content.body[j])
                   /\ AliasName(content.body[j]) = content.body[i].module

\* C11 (amended): a function that another retained unit (a file that is
\* scanned, is no __init__ and no test-like unit, and parses) imports from
\* a named module or accesses as alias.name is never classified "should be
\* private".
C11_ReferencedByRetainedNeverPrivate ==
    (/\ checked # <<>>
     /\ checked.op = "should_function_be_private"
     /\ \E p \in RetainedFiles(project) :
           /\ OtherUnit(p, checked.module_path)
           /\ RecordedMention(project[p], checked.func.name))
        => ~checked.result

\* Module n accesses a of module m through an alias, and a was asked about
\* and not flagged.
C11_Witness ==
    /\ checked # <<>>
    /\ checked.op = "should_function_be_private"
    /\ checked.func.name = <<"a">>
    /\ checked.module_path = [inside |-> TRUE, parts |-> << <<"m">> >>]
    /\ project[<< <<"n">> >>] =
          Parsed(<<ImportStmt(<<"m">>, <<"x">>), AttributeExpr(<<"x">>, <<"a">>)>>)
    /\ ~checked.result

C20_UnparsableUnitContributesNothing ==
    checked # <<>> =>
        \A p \in RetainedFiles(project) :
            IF ~project[p].ok
            THEN \A name \in DOMAIN BuildCrossModuleUsageGraph(project) :
                    ModuleName(p) \notin ConsumersOf(name)
            ELSE \A i \in 1..Len(project[p].body) :
                    RecordedMention(project[p], project[p].body[i].name)
                        => ModuleName(p) \in ConsumersOf(project[p].body[i].name)

\* Module n does not parse, module m accesses n.a, and the graph of the
\* query lists m, and only m, as a consumer of a.
C20_Witness ==
    /\ checked # <<>>
    /\ project[<< <<"n">> >>] = Unparsable(<<FromMImportA>>)
    /\ project[<< <<"m">> >>] =
          Parsed(<<ImportStmt(<<"n">>, <<>>), AttributeExpr(<<"n">>, <<"a">>)>>)
    /\ ConsumersOf(<<"a">>) = { <<"m">> }
    /\ checked.op = "should_function_be_private"
    /\ checked.func.name = <<"a">>
    /\ checked.module_path = [inside |-> TRUE, parts |-> << <<"n">> >>]
    /\ ~checked.result

\* ------------------------------------------------- the rename safety check

MaxRefs == 2

\* The contexts find_function_references gives a reference.
FoundContexts == {"call", "decorator", "assignment", "reference"}

\* The contexts a reference of a candidate may carry: the ones
\* find_function_references gives, and ones it does not know.
ReferenceContexts == FoundContexts \cup {"import", "unknown_unsafe_context"}

\* The old_name that makes _has_name_conflict raise.
TestExceptionCoverage ==
    <<"t", "e", "s", "t", "_", "e", "x", "c", "e", "p", "t", "i", "o", "n",
      "_", "c", "o", "v", "e", "r", "a", "g", "e">>

\* The fixer classes: PrivacyFixer, and the subclass whose four checks all
\* find an issue.
FixerClasses == {"PrivacyFixer", "UnsafeFixer"}

\* PrivacyFixer._has_name_conflict
HasNameConflict(cls, candidate) ==
    IF cls = "UnsafeFixer" THEN TRUE
    ELSE IF candidate.old_name = TestExceptionCoverage THEN TRUE
    ELSE FALSE

\* PrivacyFixer._has_dynamic_references
HasDynamicReferences(cls, candidate) ==
    IF cls = "UnsafeFixer" THEN TRUE ELSE FALSE

\* PrivacyFixer._has_string_references
HasStringReferences(cls, candidate) ==
    IF cls = "UnsafeFixer" THEN TRUE ELSE FALSE

\* PrivacyFixer._check_reference_contexts, before list(set(...)) orders it.
CheckReferenceContexts(cls, candidate) ==
    LET safe_contexts == {"call", "assignment", "decorator", "reference"}
        references == IF cls = "UnsafeFixer" THEN <<"unknown_unsafe_context">>
                      ELSE candidate.references
    IN  {references[i] : i \in 1..Len(references)} \ safe_contexts

\* The orders in which list(set(...)) may give the elements of a set.
Orderings(S) ==
    {order \in [1..Cardinality(S) -> S] :
        \A i, j \in 1..Cardinality(S) : i # j => order[i] # order[j]}

\* An entry of the issue list: the check that failed and what its message
\* names.
Issue(check, detail) == [check |-> check, detail |-> detail]

\* is_safe_to_rename that stops at the first failing check.
IsSafeToRename_FirstIssueOnly(cls, candidate, unsafe_contexts) ==
    LET issues ==
          IF HasNameConflict(cls, candidate)
          THEN <<Issue("name_conflict", candidate.new_name)>>
          ELSE IF HasDynamicReferences(cls, candidate)
          THEN <<Issue("dynamic_references", <<>>)>>
          ELSE IF HasStringReferences(cls, candidate)
          THEN <<Issue("string_references", <<>>)>>
          ELSE IF unsafe_contexts # <<>>
          THEN <<Issue("unsafe_contexts", unsafe_contexts)>>
          ELSE <<>>
    IN  <<Len(issues) = 0, issues>>

\* PrivacyFixer.is_safe_to_rename; unsafe_contexts is the list
\* _check_reference_contexts returned.
IsSafeToRename(cls, candidate, unsafe_contexts) ==
    LET issues1 == IF HasNameConflict(cls, candidate)
                   THEN <<Issue("name_conflict", candidate.new_name)>>
                   ELSE <<>>
        issues2 == IF HasDynamicReferences(cls, candidate)
                   THEN issues1 \o <<Issue("dynamic_references", <<>>)>>
                   ELSE issues1
        issues3 == IF HasStringReferences(cls, candidate)
                   THEN issues2 \o <<Issue("string_references", <<>>)>>
                   ELSE issues2
        issues  == IF unsafe_contexts # <<>>
                   THEN issues3 \o <<Issue("unsafe_contexts", unsafe_contexts)>>
                   ELSE issues3
    IN  <<Len(issues) = 0, issues>>

\* The unit a candidate's function_node belongs to: the names of the
\* functions it declares, the built-ins it calls and its string literals.
UnitChoices(old_name) ==
    [functions : { {old_name}, {old_name, <<"_">> \o old_name} },
     calls : { {}, {"getattr"}, {"eval"} },
     strings : { {}, {old_name}, {<<"x">> \o old_name \o <<"y">>} }]

\* The candidates handed to is_safe_to_rename.
RenameCandidates ==
    UNION { [function_node : [name : {old_name}, root : UnitChoices(old_name)],
             old_name : {old_name},
             new_name : {<<"_">> \o old_name},
             references : UNION {[1..n -> ReferenceContexts] : n \in 0..MaxRefs}]
            : old_name \in { <<"a">>, <<"a", "b">>, TestExceptionCoverage } }

InitSafe ==
    /\ fixer \in FixerClasses
    /\ rename_candidate \in RenameCandidates
    /\ safety = <<>>
    /\ FixIdle /\ SortIdle /\ CatIdle /\ PrivIdle /\ BatchIdle
    /\ CacheIdle /\ RefIdle

\* fixer.is_safe_to_rename(candidate)
IsSafeToRenameCall ==
    /\ safety = <<>>
    /\ \E unsafe_contexts \in
            Orderings(CheckReferenceContexts(fixer, rename_candidate)) :
          safety' = IsSafeToRename(fixer, rename_candidate, unsafe_contexts)
    /\ UNCHANGED <<fixer, rename_candidate>>
    /\ UNCHANGED <<fixVars, sortVars, catVars, privVars, batchVars,
                   cacheVars, refVars>>

NextSafe == IsSafeToRenameCall

SpecSafe == InitSafe /\ [][NextSafe]_vars

\* ------------------------------- properties of the rename safety check

\* The issues of the last answer that the given check produced.
IssuesOf(check) ==
    {i \in 1..Len(safety[2]) : safety[2][i].check = check}

\* C13: is_safe_to_rename reports a candidate as unsafe, with a
\* name-collision issue, whenever the unit already declares a function
\* with the new name.
C13_CollisionReported ==
    (/\ safety # <<>>
     /\ rename_candidate.new_name \in rename_candidate.function_node.root.functions)
        => (~safety[1] /\ IssuesOf("name_conflict") # {})

\* C14: is_safe_to_rename reports a candidate as unsafe whenever the unit
\* calls a dynamic-dispatch built-in or holds a string literal that
\* contains the old name.
C14_DynamicOrStringReported ==
    (/\ safety # <<>>
     /\ \/ rename_candidate.function_node.root.calls # {}
        \/ \E str \in rename_candidate.function_node.root.strings :
              Contains(str, rename_candidate.old_name))
        => ~safety[1]

\* C15: is_safe_to_rename returns one issue for each of the four checks that
\* fails and none for a check that passes, and the flag is true exactly
\* when the issue list is empty.
C15_OneIssuePerFailingCheck ==
    safety # <<>> =>
        /\ Cardinality(IssuesOf("name_conflict")) =
              (IF HasNameConflict(fixer, rename_candidate) THEN 1 ELSE 0)
        /\ Cardinality(IssuesOf("dynamic_references")) =
              (IF HasDynamicReferences(fixer, rename_candidate) THEN 1 ELSE 0)
        /\ Cardinality(IssuesOf("string_references")) =
              (IF HasStringReferences(fixer, rename_candidate) THEN 1 ELSE 0)
        /\ Cardinality(IssuesOf("unsafe_contexts")) =
              (IF CheckReferenceContexts(fixer, rename_candidate) # {}
               THEN 1 ELSE 0)
        /\ Len(safety[2]) =
              Cardinality(IssuesOf("name_conflict"))
              + Cardinality(IssuesOf("dynamic_references"))
              + Cardinality(IssuesOf("string_references"))
              + Cardinality(IssuesOf("unsafe_contexts"))
        /\ safety[1] <=> (safety[2] = <<>>)

\* All four checks failed and four issues came back.
C15_Witness ==
    /\ safety # <<>>
    /\ HasNameConflict(fixer, rename_candidate)
    /\ HasDynamicReferences(fixer, rename_candidate)
    /\ HasStringReferences(fixer, rename_candidate)
    /\ CheckReferenceContexts(fixer, rename_candidate) # {}
    /\ Len(safety[2]) = 4
    /\ ~safety[1]

\* ------------------------------------------------------ sort_python_files

MaxPaths == 3

\* pathlib's Path.suffix for a one-component path: the part from the last
\* dot on, empty when there is no dot after the first character or the
\* name ends with the dot.
Suffix(file_path) ==
    LET dots == {i \in 2..Len(file_path) : file_path[i] = "."}
        last == CHOOSE i \in dots : \A j \in dots : j <= i
    IN  IF dots = {} THEN <<>>
        ELSE IF last = Len(file_path) THEN <<>>
        ELSE SubSeq(file_path, last, Len(file_path))

\* The test of the loop of sort_python_files, passing every path.
IsPythonPath_AnySuffix(file_path) == TRUE

\* file_path.suffix == ".py"
IsPythonPath(file_path) == Suffix(file_path) = <<".", "p", "y">>

\* The paths handed over: a.py, b.py, the text file n.txt and the file py.
PathPool ==
    { <<"a", ".", "p", "y">>, <<"b", ".", "p", "y">>,
      <<"n", ".", "t", "x", "t">>, <<"p", "y">> }

\* zebra before apple: a file sort_file rewrites.
UnsortedCode == <<DefText(<<"c">>), NL, DefText(<<"a">>), NL>>

\* apple before zebra.
AlreadySortedCode == <<DefText(<<"a">>), NL, DefText(<<"c">>), NL>>

\* The same functions followed by invalid syntax.
InvalidCode == UnsortedCode \o <<DecoText(RouteDecorator), NL>>

\* What the files hold: a.py sorted or not, b.py unsorted or invalid, the
\* other two the unsorted code.
DiskChoices ==
    { [p \in PathPool |->
          [file |-> IF p = <<"a", ".", "p", "y">> THEN a_content
                    ELSE IF p = <<"b", ".", "p", "y">> THEN b_content
                    ELSE UnsortedCode,
           bak |-> <<>>]] :
        a_content \in {UnsortedCode, AlreadySortedCode},
        b_content \in {UnsortedCode, InvalidCode} }

InitBatch ==
    /\ batch_paths \in UNION {[1..n -> PathPool] : n \in 0..MaxPaths}
    /\ batch_config \in [dry_run : BOOLEAN, backup : BOOLEAN,
                         ignore_decorators : { <<>> }]
    /\ batch_disk \in DiskChoices
    /\ batch_pos = 1
    /\ files_processed = 0
    /\ files_modified = 0
    /\ batch_log = <<>>
    /\ batch_result = <<>>
    /\ FixIdle /\ SortIdle /\ CatIdle /\ PrivIdle /\ SafeIdle
    /\ CacheIdle /\ RefIdle

\* One pass of the loop of sort_python_files over a path with suffix .py:
\* the counter, the sort_file call, the second counter.
ProcessPythonFile ==
    LET file_path == batch_paths[batch_pos]
    IN  /\ batch_result = <<>>
        /\ batch_pos <= Len(batch_paths)
        /\ IsPythonPath(file_path)
        /\ \E outcome \in SortFileOutcomes(batch_disk[file_path].file,
                                           batch_disk[file_path].bak,
                                           batch_config) :
              /\ batch_disk' = [batch_disk EXCEPT ![file_path] =
                                   [file |-> outcome.file, bak |-> outcome.bak]]
              /\ files_processed' = files_processed + 1
              /\ files_modified' = IF outcome.ret THEN files_modified + 1
                                   ELSE files_modified
              /\ batch_log' = Append(batch_log, [path |-> file_path,
                                                  ret |-> outcome.ret,
                                                  err |-> outcome.err])
        /\ batch_pos' = batch_pos + 1
        /\ UNCHANGED <<batch_paths, batch_config, batch_result>>
        /\ UNCHANGED <<fixVars, sortVars, catVars, privVars, safeVars,
                   cacheVars, refVars>>

\* One pass of the loop over a path with another suffix.
SkipOtherFile ==
    /\ batch_result = <<>>
    /\ batch_pos <= Len(batch_paths)
    /\ ~IsPythonPath(batch_paths[batch_pos])
    /\ batch_pos' = batch_pos + 1
    /\ UNCHANGED <<batch_paths, batch_config, batch_disk, files_processed,
                   files_modified, batch_log, batch_result>>
    /\ UNCHANGED <<fixVars, sortVars, catVars, privVars, safeVars,
                   cacheVars, refVars>>

\* return files_processed, files_modified
ReturnCounts ==
    /\ batch_result = <<>>
    /\ batch_pos > Len(batch_paths)
    /\ batch_result' = << <<files_processed, files_modified>> >>
    /\ UNCHANGED <<batch_paths, batch_config, batch_disk, batch_pos,
                   files_processed, files_modified, batch_log>>
    /\ UNCHANGED <<fixVars, sortVars, catVars, privVars, safeVars,
                   cacheVars, refVars>>

NextBatch == ProcessPythonFile \/ SkipOtherFile \/ ReturnCounts

SpecBatch == InitBatch /\ [][NextBatch]_vars

\* -------------------------------------- properties of sort_python_files

\* The paths among the first n of file_paths whose name ends in ".py", in
\* list order.
RECURSIVE PyPathsUpTo(_)
PyPathsUpTo(n) ==
    IF n = 0 THEN <<>>
    ELSE LET p == batch_paths[n]
             ends_in_py == Len(p) >= 3 /\ SubSeq(p, Len(p) - 2, Len(p)) = <<".", "p", "y">>
         IN  IF ends_in_py THEN Append(PyPathsUpTo(n - 1), p)
             ELSE PyPathsUpTo(n - 1)

\* The number of sort_file calls so far that returned True.
ModifiedCount == Cardinality({i \in 1..Len(batch_log) : batch_log[i].ret})

\* C19: the sort_file calls made so far are exactly the .py paths before the
\* loop position, in list order, whatever the earlier calls returned or
\* caught; the counters count those calls and the ones that returned True;
\* and what is returned is the number of .py paths given and a number of
\* modified files that is no larger.
C19_EveryPathInOrder ==
    /\ batch_paths # <<>> =>
          /\ [i \in 1..Len(batch_log) |-> batch_log[i].path]
                = PyPathsUpTo(batch_pos - 1)
          /\ files_processed = Len(batch_log)
          /\ files_modified = ModifiedCount
          /\ files_modified <= files_processed
    /\ batch_result # <<>> =>
          /\ batch_pos = Len(batch_paths) + 1
          /\ batch_result[1][1] = Len(PyPathsUpTo(Len(batch_paths)))
          /\ batch_result[1][2] = ModifiedCount
          /\ batch_result[1][2] <= batch_result[1][1]

\* Three files were given, the sort_file call on the first failed, and the
\* two after it were still processed, one of them modified.
C19_Witness ==
    /\ batch_result = << <<3, 1>> >>
    /\ Len(batch_log) = 3
    /\ batch_log[1].err # "none"
    /\ batch_log[3].ret

\* ------------------------------------------- the cache of the file scanner

\* @lru_cache(maxsize=128)
MaxSize == 128

MaxFiles == 130

MaxRuns == 2

\* The files whose modification time changes between requests.
TouchedFiles == {1, 2}

\* What _extract_imports_from_file computes for a file: the sets it reads
\* from the content the file has at that modification time.
ParseResult(file_path, file_mtime) ==
    [module_imports |-> {},
     function_imports |-> {<<file_path, file_mtime>>},
     attribute_accesses |-> {}]

\* The position of the key among the entries, 0 when it has none.
EntryIndex(entries, key) ==
    IF \E i \in 1..Len(entries) : entries[i].key = key
    THEN CHOOSE i \in 1..Len(entries) : entries[i].key = key
    ELSE 0

\* entries without the one at position i
RemoveAt(entries, i) ==
    SubSeq(entries, 1, i - 1) \o SubSeq(entries, i + 1, Len(entries))

\* An lru_cache whose hits do not renew the entry (first in, first out).
LruCacheCall_NoRenewal(entries, key, value, run, maxsize) ==
    LET i == EntryIndex(entries, key)
        added == Append(entries, [key |-> key, result |-> value, run |-> run])
    IN  IF i # 0
        THEN [entries |-> entries, hit |-> TRUE,
              result |-> entries[i].result, run |-> entries[i].run]
        ELSE [entries |-> IF Len(added) > maxsize THEN Tail(added) ELSE added,
              hit |-> FALSE, result |-> value, run |-> run]

\* A call of a function wrapped by functools.lru_cache(maxsize): a hit
\* returns the stored result and makes the entry the most recently used; a
\* miss computes value, stores it and, when the cache is full, drops the
\* least recently used entry.  run is the analysis run that makes the call.
LruCacheCall(entries, key, value, run, maxsize) ==
    LET i == EntryIndex(entries, key)
        added == Append(entries, [key |-> key, result |-> value, run |-> run])
    IN  IF i # 0
        THEN [entries |-> Append(RemoveAt(entries, i), entries[i]), hit |-> TRUE,
              result |-> entries[i].result, run |-> entries[i].run]
        ELSE [entries |-> IF Len(added) > maxsize THEN Tail(added) ELSE added,
              hit |-> FALSE, result |-> value, run |-> run]

InitCache ==
    /\ lru_entries = <<>>
    /\ scan_size \in {2, MaxSize, MaxFiles}
    /\ unit_mtime = [p \in TouchedFiles |-> 0]
    /\ scan_pos = 1
    /\ scan_run = 1
    /\ use_log = <<>>
    /\ last_call = <<>>
    /\ FixIdle /\ SortIdle /\ CatIdle /\ PrivIdle /\ SafeIdle /\ BatchIdle
    /\ RefIdle

\* st_mtime of a file
MtimeOf(file_path) ==
    IF file_path \in TouchedFiles THEN unit_mtime[file_path] ELSE 0

\* One pass of the loop of _build_cross_module_usage_graph: stat the file
\* and call _extract_imports_from_file(file_path, file_mtime).
ExtractImportsCall ==
    /\ scan_pos <= scan_size
    /\ LET key == <<scan_pos, MtimeOf(scan_pos)>>
           call == LruCacheCall(lru_entries, key,
                                ParseResult(scan_pos, MtimeOf(scan_pos)),
                                scan_run, MaxSize)
       IN  /\ lru_entries' = call.entries
           /\ last_call' = [key |-> key, hit |-> call.hit,
                            result |-> call.result, parsed_in |-> call.run,
                            run |-> scan_run]
           /\ use_log' = Append(use_log, key)
    /\ scan_pos' = scan_pos + 1
    /\ UNCHANGED <<unit_mtime, scan_size, scan_run>>
    /\ UNCHANGED <<fixVars, sortVars, catVars, privVars, safeVars, batchVars,
                   refVars>>

\* The next call of _build_cross_module_usage_graph in the same process.
NextRun ==
    /\ scan_pos > scan_size
    /\ scan_run < MaxRuns
    /\ scan_pos' = 1
    /\ scan_run' = scan_run + 1
    /\ UNCHANGED <<lru_entries, unit_mtime, scan_size, use_log, last_call>>
    /\ UNCHANGED <<fixVars, sortVars, catVars, privVars, safeVars, batchVars,
                   refVars>>

\* A file is modified between two runs, or its old version is restored.
TouchFile(file_path) ==
    /\ scan_pos > scan_size
    /\ scan_run < MaxRuns
    /\ unit_mtime' = [unit_mtime EXCEPT ![file_path] = 1 - @]
    /\ UNCHANGED <<lru_entries, scan_size, scan_pos, scan_run, use_log,
                   last_call>>
    /\ UNCHANGED <<fixVars, sortVars, catVars, privVars, safeVars, batchVars,
                   refVars>>

NextCache ==
    \/ ExtractImportsCall
    \/ NextRun
    \/ \E file_path \in TouchedFiles : TouchFile(file_path)

SpecCache == InitCache /\ [][NextCache]_vars

\* ---------------------------------------------- properties of the cache

\* The keys the cache holds.
CachedKeys == {lru_entries[i].key : i \in 1..Len(lru_entries)}

\* The position of the last request for the key.
LastUse(key) ==
    CHOOSE i \in 1..Len(use_log) :
        use_log[i] = key /\ \A j \in (i + 1)..Len(use_log) : use_log[j] # key

\* The cached key whose last request is the oldest.
LeastRecentlyUsed ==
    CHOOSE key \in CachedKeys :
        \A other \in CachedKeys : LastUse(key) <= LastUse(other)

\* C21: a request whose key (file, mtime) the cache holds returns the
\* stored result without parsing and leaves the set of keys as it is; a
\* request whose key it does not hold (a new file, another mtime, an evicted
\* entry) parses and stores the result; the cache never holds more than 128
\* entries, and a miss on a full cache drops exactly the least recently
\* used key.
C21_MemoizedByPathAndMtime ==
    [][use_log' # use_log =>
          LET key == last_call'.key
              keys_after == {lru_entries'[i].key : i \in 1..Len(lru_entries')}
          IN  /\ key = <<scan_pos, MtimeOf(scan_pos)>>
              /\ last_call'.hit <=> key \in CachedKeys
              /\ last_call'.hit =>
                    /\ last_call'.result =
                          lru_entries[EntryIndex(lru_entries, key)].result
                    /\ keys_after = CachedKeys
              /\ ~last_call'.hit =>
                    /\ last_call'.result = ParseResult(key[1], key[2])
                    /\ keys_after =
                          IF Len(lru_entries) < MaxSize
                          THEN CachedKeys \cup {key}
                          ELSE (CachedKeys \ {LeastRecentlyUsed}) \cup {key}
              /\ Len(lru_entries') <= MaxSize
              /\ Cardinality(keys_after) = Len(lru_entries')]_vars

\* In the second run over 128 files, file 1 was served from the full cache
\* and file 2, modified since, was parsed again: its old entry, not the
\* older one of file 1, has been dropped.
C21_Witness ==
    /\ scan_size = MaxSize
    /\ scan_run = 2
    /\ last_call # <<>>
    /\ last_call.key = <<2, 1>>
    /\ ~last_call.hit
    /\ Len(lru_entries) = MaxSize
    /\ <<1, 0>> \in CachedKeys
    /\ <<2, 0>> \notin CachedKeys

\* C28: an entry populated during one analysis run is never served to a
\* different analysis run: every request the cache answers is answered
\* with a result parsed in the run that makes the request.
C28_CacheNotSharedAcrossRuns ==
    (last_call # <<>> /\ last_call.hit) => last_call.parsed_in = last_call.run

\* ------------------------------ properties of the ignore patterns

\* One dot-free segment against a pattern segment in which * stands for one
\* or more characters.
RECURSIVE SegmentMatches(_, _)
SegmentMatches(pattern_seg, seg) ==
    IF pattern_seg = <<>> THEN seg = <<>>
    ELSE IF Head(pattern_seg) = "*"
    THEN \E k \in 1..Len(seg) :
            SegmentMatches(Tail(pattern_seg), SubSeq(seg, k + 1, Len(seg)))
    ELSE seg # <<>> /\ Head(seg) = Head(pattern_seg)
         /\ SegmentMatches(Tail(pattern_seg), Tail(seg))

\* The rule of the ignore patterns: the decorator text equals the pattern
\* (with its @), or does so without the trailing parentheses of either, or
\* matches it segment by segment, a * never reaching over a dot.
MatchesIgnoreRule(decorator_text, rule) ==
    LET with_at == IF rule # <<>> /\ rule[1] = "@" THEN rule ELSE <<"@">> \o rule
        d == Split(RStrip(decorator_text, {"(", ")"}), ".")
        p == Split(RStrip(with_at, {"(", ")"}), ".")
    IN  \/ decorator_text = with_at
        \/ d = p
        \/ /\ Len(d) = Len(p)
           /\ \A i \in 1..Len(p) : SegmentMatches(p[i], d[i])

\* The function has a decorator that an ignore pattern matches.
IsIgnored(f) ==
    \E i \in 1..Len(GetDecoratorStrings(f.decorators)) :
    \E j \in 1..Len(ignore_decorators) :
        MatchesIgnoreRule(GetDecoratorStrings(f.decorators)[i],
                          ignore_decorators[j])

\* The functions of the validated list that no ignore pattern removes.
Remaining == SelectSeq(func_list, LAMBDA f : ~IsIgnored(f))

\* C26: the verdict of is_sorted is the verdict of the check on the list
\* without the functions that have a decorator matching an ignore pattern.
C26_VerdictOnRemaining ==
    is_sorted # <<>> => is_sorted = <<AreFunctionsSorted(Remaining, sort_config)>>

\* b before a is accepted because the glob @*.r removes the b decorated
\* with @c.r, while the b decorated with @a.b.r would stay.
C26_Witness ==
    /\ is_sorted = <<TRUE>>
    /\ ignore_decorators = << <<"@", "*", ".", "r">> >>
    /\ Len(func_list) = 2
    /\ func_list[1].name = <<"b">>
    /\ func_list[1].decorators = <<AttributeNode(NameNode(<<"c">>), <<"r">>)>>
    /\ func_list[2].name = <<"a">>
    /\ ~AreFunctionsSorted(func_list, sort_config)

\* ---------------------------------------------------- reference finder

\* The longest module body of the searched trees.
MaxStmts == 2

\* Nodes of the searched tree are [t, n, e]: class, name, children in the
\* order of get_children(). A node is identified by its path from the root.
CallOf(func, args) == [t |-> "Call", n |-> <<>>, e |-> <<func>> \o args]

ExprOf(value) == [t |-> "Expr", n |-> <<>>, e |-> <<value>>]

AssignOf(target, value) ==
    [t |-> "Assign", n |-> <<>>,
     e |-> <<[t |-> "AssignName", n |-> target, e |-> <<>>], value>>]

ReturnOf(value) == [t |-> "Return", n |-> <<>>, e |-> <<value>>]

\* FunctionDef.get_children(): the Decorators node if there is one, the
\* arguments, the body.
FunctionDefOf(name, decorators, body) ==
    [t |-> "FunctionDef", n |-> name,
     e |-> (IF decorators = <<>> THEN <<>>
            ELSE <<[t |-> "Decorators", n |-> <<>>, e |-> decorators]>>)
           \o <<[t |-> "Arguments", n |-> <<>>, e |-> <<>>]>> \o body]

ModuleOf(body) == [t |-> "Module", n |-> <<>>, e |-> body]

\* hasattr(node, "decorators") and node.decorators
HasDecorators(node) ==
    /\ node.t \in {"FunctionDef", "ClassDef"}
    /\ node.e # <<>>
    /\ node.e[1].t = "Decorators"

\* FunctionReference(node, line, col, context); line and col are those of
\* the node.
FunctionReference(node_path, context) == [node |-> node_path, context |-> context]

\* The Call branch of _check_node.
CallReference(node, path, function_name) ==
    IF node.e[1].t = "Name" /\ node.e[1].n = function_name
    THEN <<FunctionReference(path, "call")>>
    ELSE <<>>

\* The decorator branch of _check_node: the positions of the decorators
\* that are the bare name.
DecoratorHits(node, function_name) ==
    { k \in 1..Len(node.e[1].e) :
        node.e[1].e[k].t = "Name" /\ node.e[1].e[k].n = function_name }

DecoratorReferences(node, path, function_name) ==
    LET all == [k \in 1..Len(node.e[1].e) |->
                   FunctionReference(path \o <<1, k>>, "decorator")]
    IN  SelectSeq(all, LAMBDA r : r.node[Len(r.node)] \in DecoratorHits(node, function_name))

\* The Name branch without the look at decorator_nodes.
NameReference_NoDecoratorSkip(node, path, parent, decorator_nodes) ==
    IF parent.t = "Call" /\ path[Len(path)] = 1 THEN <<>>
    ELSE <<FunctionReference(path,
               IF parent.t = "Assign" THEN "assignment" ELSE "reference")>>

\* The Name branch of _check_node, for a Name node with the searched name.
NameReference(node, path, parent, decorator_nodes) ==
    IF path \in decorator_nodes THEN <<>>
    ELSE IF parent.t = "Call" /\ path[Len(path)] = 1 THEN <<>>
    ELSE <<FunctionReference(path,
               IF parent.t = "Assign" THEN "assignment" ELSE "reference")>>

\* _check_node(node) and the loop over node.get_children(); acc holds
\* references and decorator_nodes.
RECURSIVE CheckNode(_, _, _, _, _)
RECURSIVE CheckChildren(_, _, _, _, _)
CheckNode(node, path, parent, function_name, acc) ==
    LET after ==
            IF node.t = "Call"
            THEN [acc EXCEPT !.references = @ \o CallReference(node, path, function_name)]
            ELSE IF HasDecorators(node)
            THEN [references |-> acc.references
                                   \o DecoratorReferences(node, path, function_name),
                  decorator_nodes |-> acc.decorator_nodes
                        \cup { path \o <<1, k>> : k \in DecoratorHits(node, function_name) }]
            ELSE IF node.t = "Name" /\ node.n = function_name
            THEN [acc EXCEPT !.references =
                      @ \o NameReference(node, path, parent, acc.decorator_nodes)]
            ELSE acc
    IN  CheckChildren(node, path, 1, function_name, after)

CheckChildren(node, path, i, function_name, acc) ==
    IF i > Len(node.e) THEN acc
    ELSE CheckChildren(node, path, i + 1, function_name,
                       CheckNode(node.e[i], Append(path, i), node, function_name, acc))

\* PrivacyFixer.find_function_references
FindFunctionReferences(function_name, module_ast) ==
    CheckNode(module_ast, <<>>, [t |-> "None", n |-> <<>>, e |-> <<>>],
              function_name,
              [references |-> <<>>, decorator_nodes |-> {}]).references

\* ------------------------------------------------ reference finder inputs

RefNames == { <<"f">>, <<"g">> }

\* f, f(), f(f), g(f) and g.f()
RefExprs ==
    { NameNode(<<"f">>),
      CallOf(NameNode(<<"f">>), <<>>),
      CallOf(NameNode(<<"f">>), <<NameNode(<<"f">>)>>),
      CallOf(NameNode(<<"g">>), <<NameNode(<<"f">>)>>),
      CallOf(AttributeNode(NameNode(<<"g">>), <<"f">>), <<>>) }

\* Decorator lists: none, @f, @g @f, @f().
RefDecorators ==
    { <<>>,
      <<NameNode(<<"f">>)>>,
      <<NameNode(<<"g">>), NameNode(<<"f">>)>>,
      <<CallOf(NameNode(<<"f">>), <<>>)>> }

RefStmts ==
    { ExprOf(x) : x \in RefExprs }
    \cup { AssignOf(<<"x">>, x) : x \in RefExprs }
    \cup { FunctionDefOf(name, d, <<ReturnOf(x)>>) :
             name \in RefNames, d \in RefDecorators,
             x \in { NameNode(<<"f">>), CallOf(NameNode(<<"f">>), <<>>) } }

RefTrees == { ModuleOf(body) : body \in UNION { [1..k -> RefStmts] : k \in 1..MaxStmts } }

InitRefs ==
    /\ ref_tree \in RefTrees
    /\ ref_symbol \in RefNames
    /\ ref_found = <<>>
    /\ FixIdle /\ SortIdle /\ CatIdle /\ PrivIdle /\ SafeIdle /\ BatchIdle
    /\ CacheIdle

\* find_function_references(function_name, module_ast)
FindReferencesCall ==
    /\ ref_found = <<>>
    /\ ref_found' = <<FindFunctionReferences(ref_symbol, ref_tree)>>
    /\ UNCHANGED <<ref_tree, ref_symbol>>
    /\ UNCHANGED <<fixVars, sortVars, catVars, privVars, safeVars, batchVars,
                   cacheVars>>

NextRefs == FindReferencesCall

SpecRefs == InitRefs /\ [][NextRefs]_vars

\* ----------------------------------- properties of the reference finder

\* The node of the searched tree at a path.
RECURSIVE NodeAt(_, _)
NodeAt(tree, path) ==
    IF path = <<>> THEN tree ELSE NodeAt(tree.e[Head(path)], Tail(path))

\* The paths of all nodes of a tree.
RECURSIVE PathsOf(_)
PathsOf(tree) ==
    {<<>>} \cup UNION { { <<i>> \o p : p \in PathsOf(tree.e[i]) } : i \in 1..Len(tree.e) }

\* The occurrences of the searched symbol: the Name nodes that carry it.
Occurrences ==
    { p \in PathsOf(ref_tree) :
        NodeAt(ref_tree, p).t = "Name" /\ NodeAt(ref_tree, p).n = ref_symbol }

\* The occurrence a reference stands for: the callee of a reported call,
\* the reported node otherwise.
OccurrenceOf(r) == IF r.context = "call" THEN Append(r.node, 1) ELSE r.node

\* C27: the references returned are, one for one, the occurrences of the
\* symbol: no node is reported twice, a decorator is reported as decorator
\* only, the callee of a reported call is not reported again, no function
\* definition is reported, and every context is one of the four.
C27_OneReferencePerOccurrence ==
    ref_found # <<>> =>
        LET refs == ref_found[1]
        IN  /\ \A i, j \in 1..Len(refs) :
                  i # j => /\ refs[i].node # refs[j].node
                           /\ OccurrenceOf(refs[i]) # OccurrenceOf(refs[j])
            /\ { OccurrenceOf(refs[i]) : i \in 1..Len(refs) } = Occurrences
            /\ \A i \in 1..Len(refs) :
                  /\ refs[i].context \in {"call", "assignment", "decorator", "reference"}
                  /\ NodeAt(ref_tree, refs[i].node).t \in {"Name", "Call"}
                  /\ refs[i].context = "decorator"
                        <=> /\ Len(refs[i].node) > 1
                            /\ NodeAt(ref_tree,
                                      SubSeq(refs[i].node, 1, Len(refs[i].node) - 1)).t
                                  = "Decorators"
                            /\ NodeAt(ref_tree, refs[i].node).t = "Name"

\* def f decorated with @f and returning f(): the decorator and the call
\* are reported, once each, and the definition is not.
C27_Witness ==
    /\ ref_symbol = <<"f">>
    /\ ref_tree = ModuleOf(<<FunctionDefOf(<<"f">>, <<NameNode(<<"f">>)>>,
                                <<ReturnOf(CallOf(NameNode(<<"f">>), <<>>))>>)>>)
    /\ ref_found # <<>>
    /\ Len(ref_found[1]) = 2
    /\ ref_found[1][1].context = "decorator"
    /\ ref_found[1][2].context = "call"

====
